---- MODULE Spec2Model ----
(***************************************************************************)
(* Download orchestration core of icnx-rs:                                 *)
(*   src/src/downloader/mod.rs  - Downloader (permit pool, retry loop,     *)
(*                                streaming attempt), session-token and    *)
(*                                pause-flag registries                    *)
(*   src/src/commands.rs        - start/cancel/pause/resume session        *)
(*                                commands                                 *)
(*   src/src/downloader/session_db.rs - SessionDb, the progress and the    *)
(*                                history writer threads and their queues  *)
(* The specifications share the variables:                                 *)
(*   RegistrySpec - arbitrary call sequences on the two global registries  *)
(*   Spec         - one session, its executors and the user's commands     *)
(*   SpecTwo      - two sessions running at the same time, no commands     *)
(*   SpecItems    - one session whose item list holds malformed values     *)
(*   StoreSpec    - arbitrary call sequences on SessionDb                  *)
(*   HistorySpec  - arbitrary submissions to the history writer            *)
(*   PersistSpec  - one session's executors and the progress writer thread *)
(*   StreamSpec   - one session whose bodies come in several chunks        *)
(*   OrderSpec    - one session, its commands and the history writer       *)
(*   StallSpec    - Spec with fair scheduling and a possibly silent server *)
(*   RepeatSpec   - one session whose item list may repeat a url           *)
(*   ReadSpec     - the read commands on the three kinds of store          *)
(*   SummarySpec  - get_download_history over history.json                 *)
(*   MigrateSpec  - migrate_json_history_to_db and the history writer      *)
(*   NameSpec     - the filename resolution of the download path           *)
(*   BackoffSpec  - one session under the settings' backoff_ms values      *)
(*   RecordSpec   - one session, its retries and the history submissions   *)
(*   FairSpec     - Spec with fair scheduling of tasks and server          *)
(*   CancelAllSpec - one session and cancel_all on its Downloader          *)
(*   PurgeSpec    - the history writer and purge_persistent_history        *)
(* In Spec, SpecTwo and SpecItems the writer threads are gone (an earlier  *)
(* store could not be opened), so every enqueue there fails and is logged. *)
(***************************************************************************)
EXTENDS Integers, FiniteSets, Sequences, TLC

\* ------------------------------------------------------------------ bounds
MaxConc == 2
MaxRetries == 1
MaxBytes == 1
\* jobs a caller of the history interface may have waiting in the channel
MaxQueue == 2
\* records in history.json
MaxRecs == 3
\* characters in the last segment of a url
MaxSeg == 3
\* the largest delay the (scaled) u64 of the backoff arithmetic holds
MaxDelay == 7

\* the values of settings.max_concurrent tried: none, one, several
ConcurrencySettings == {0, 1, MaxConc}

\* ------------------------------------------------------------ identifiers
Sessions == {"s1", "s2"}
\* the ids a call may name
Ids == Sessions
Tokens == {"t1", "t2"}
\* CancellationToken::new() of start_download_session: one fresh token per session
TokenOf(s) == IF s = "s1" THEN "t1" ELSE "t2"
Executors == {"a", "b", "c"}
\* the item lists handed to start_download_session, one per session started:
\* one session of two items, or that session and a second one of one item
OneSession == [s \in {"s1"} |-> <<"a", "b">>]
TwoSessions == [s \in Sessions |-> IF s = "s1" THEN <<"a", "b">> ELSE <<"c">>]
\* an item value that serde_json::from_value::<DownloadItem> rejects
Malformed == "bad"
\* serde_json::from_value::<DownloadItem>(v) is Ok
WellFormed(v) == v # Malformed
\* item lists with a malformed value between two well-formed ones, and with
\* no well-formed value at all
MixedSession == [s \in {"s1"} |-> <<"a", Malformed, "b">>]
NoValidItems == [s \in {"s1"} |-> <<Malformed>>]

\* Option::None of total_size, and "no file at this path"
NoLen == 0 - 1
NoFile == 0 - 1

Max(x, y) == IF x >= y THEN x ELSE y

VARIABLES
  items,        \* session -> its item list, in spawn order (one executor per item)
  urls,         \* executor -> the url of its item
  backoffMs,    \* settings.backoff_ms, as handed to every executor
  tokens,       \* GLOBAL_SESSION_TOKENS: id -> token, DOMAIN = the registered ids
  cancelled,    \* the tokens whose cancel() has been called
  pauseFlags,   \* GLOBAL_PAUSE_FLAGS: id -> flag value, DOMAIN = the ids with an entry
  ret,          \* the last registry call or command: [op, id, result, seq]
  sinceCancel,  \* history: ids cancelled with no register_session_token since
  replaced,     \* history: the tokens a register_session_token has overwritten
  lastSet,      \* history: id -> the last set_session_paused value not yet removed
  sess,         \* session -> position of start_download_session's background task
  spawned,      \* session -> number of items the spawn loop has gone through
  permits,      \* session -> available permits of its Downloader's semaphore
  retries,      \* settings.retries
  configuredAll, \* settings.max_concurrent (the commands pass concurrency: None)
  chunks,       \* the number of chunks the bodies of the responses have at most
  slack,        \* history: executor -> chunks it wrote after its token was cancelled
  slept,        \* history: executor -> the delays its retry loop has slept
  pc,           \* executor -> position in download_with_progress
  attempt,      \* executor -> the retry loop's attempt counter
  tries,        \* history: executor -> calls of download_once_with_emit so far
  total,        \* executor -> total_size of the current attempt
  downloaded,   \* executor -> downloaded of the current attempt
  lastErr,      \* executor -> the error of the last failed attempt
  result,       \* executor -> the DownloadStatus returned
  fs,           \* path -> size of the file there, or NoFile
  events,       \* the session notifications emitted so far: <<name, id>>
                \* (started, cancelled, finished, cleanup; the paused and resumed
                \* notifications of the pause and resume commands are not recorded)
  writer,       \* DB_WRITER's thread: "none" before the first enqueue, "alive", "dead"
  queue,        \* the progress writer's channel: WriteJobs in submission order
  conns,        \* the progress writer's conns: the session stores it has opened
  store,        \* session -> rows of the progress table of session-<id>.db
  hwriter,      \* HISTORY_WRITER's thread, as writer
  hqueue,       \* the history writer's channel
  hconn,        \* the history writer has opened history.db
  hstore,       \* rows of the history table of history.db
  nextId,       \* the next fresh uuid of emit_progress's history records
  readBack,     \* the rows the last read_all / read_history returned
  readRet,      \* store file -> what the last read command on it returned
  disk,         \* store file -> "absent", "file" (no table yet) or "table"
  swriter,      \* SCRAPE_WRITER and its thread: "none", "alive" or "dead"
  squeue,       \* the scrape jobs in the channel
  sconn,        \* whether the scrape writer holds a connection to scrape.db
  sstore,       \* the rows of the scrape table
  legacy,       \* history.json: its form and the records it holds
  summaries,    \* what get_download_history returned last: session -> status
  migrated,     \* what migrate_json_history_to_db returned last: "none", "ok", "err"
  replayed,     \* history: the legacy records the migrations have read and replayed
  req,          \* filename resolution: the item (filename, url) and the content-type
  resolved,     \* filename resolution: the name download_once_with_emit chose
  lastEnq,      \* history: url -> the progress row last accepted for writing
  dropped,      \* history: the urls with an accepted progress job lost or rejected
  owners,       \* history: url -> the executors whose progress jobs were accepted
  lastSub,      \* history: id -> the history row last accepted for writing
  hdropped      \* history: the ids with an accepted history job lost or rejected

vars == <<items, urls, backoffMs, chunks, slack, slept, tokens, cancelled, pauseFlags, ret, sinceCancel, replaced, lastSet, sess, spawned,
          permits, retries, configuredAll, pc, attempt, tries, total, downloaded,
          lastErr, result, fs, events, writer, queue, conns, store, hwriter, hqueue,
          hconn, hstore, nextId, readBack, lastEnq, dropped, owners, lastSub, hdropped,
          readRet, disk, swriter, squeue, sconn, sstore,
          legacy, summaries, migrated, replayed, req, resolved>>

\* the item lists name their items by url: each item has a url of its own,
\* or the list of session s1 repeats the url of its first item
DistinctUrls == [e \in Executors |-> e]
RepeatedUrls == [e \in Executors |-> IF e = "b" THEN "a" ELSE e]
\* q.item.url
UrlOf(e) == urls[e]
\* q.dir.join(filename): the name is the item's own or comes from its url,
\* and the items of a session share the directory
PathOf(e) == UrlOf(e)

regVars == <<tokens, cancelled, pauseFlags, ret, sinceCancel, replaced, lastSet>>
sessVars == <<sess, spawned, permits, configuredAll>>
progressVars == <<writer, queue, conns, store, lastEnq, dropped, owners>>
historyVars == <<hwriter, hqueue, hconn, hstore, nextId, lastSub, hdropped>>
scrapeVars == <<swriter, squeue, sconn, sstore>>
readVars == <<readBack, readRet>>
migrateVars == <<migrated, replayed>>
nameVars == <<req, resolved>>
\* the state of the commands on history.json and of the filename resolution
commandVars == <<legacy, summaries, migrateVars, nameVars>>
persistVars == <<progressVars, historyVars, scrapeVars, disk, readVars, commandVars>>

ItemsOf(s) == items[s]
SessionOf(e) == CHOOSE s \in DOMAIN items : \E i \in 1..Len(items[s]) : items[s][i] = e
execVars == <<pc, attempt, tries, slack, slept, total, downloaded, lastErr, result, fs>>

\* ------------------------------------------------------------- registries
\* a call's outcome; seq flips on every call so that each call is a step
Ret(op, id, res) == [op |-> op, id |-> id, result |-> res, seq |-> 1 - ret.seq]

\* map.remove(id)
MapRemove(m, id) == [k \in DOMAIN m \ {id} |-> m[k]]
\* map.insert(id, v)
MapInsert(m, id, v) == [k \in DOMAIN m \cup {id} |-> IF k = id THEN v ELSE m[k]]

\* has_session_token
HasSessionToken(id) == id \in DOMAIN tokens

\* is_session_paused: the flag's value, false when there is no entry
IsSessionPaused(id) == IF id \in DOMAIN pauseFlags THEN pauseFlags[id] ELSE FALSE

SetPausedMapInsertOnly(m, id, paused) == IF id \in DOMAIN m THEN m ELSE MapInsert(m, id, paused)

\* set_session_paused: entry(id).or_insert(false), then store(paused)
SetPausedMap(m, id, paused) == MapInsert(m, id, paused)

RegisterMapKeepsFirst(m, id, tok) == IF id \in DOMAIN m THEN m ELSE MapInsert(m, id, tok)

\* register_session_token: insert, overwriting
RegisterMap(m, id, tok) == MapInsert(m, id, tok)

\* cancel_session: the token it removes and fires, if any
CancelFires(id) == IF id \in DOMAIN tokens THEN {tokens[id]} ELSE {}


\* register_session_token(id, tok)
RegisterSessionToken(id, tok) ==
  /\ tokens' = RegisterMap(tokens, id, tok)
  /\ sinceCancel' = sinceCancel \ {id}
  /\ replaced' = IF id \in DOMAIN tokens /\ tokens[id] # tok
                   THEN replaced \cup {tokens[id]} ELSE replaced
  /\ UNCHANGED cancelled

\* unregister_session_token(id): removes silently
UnregisterSessionToken(id) ==
  /\ tokens' = MapRemove(tokens, id)
  /\ UNCHANGED <<cancelled, sinceCancel, replaced>>

CancelSessionKeepsEntry(id) ==
  /\ cancelled' = cancelled \cup CancelFires(id)
  /\ tokens' = tokens
  /\ sinceCancel' = IF HasSessionToken(id) THEN sinceCancel \cup {id} ELSE sinceCancel
  /\ UNCHANGED replaced

\* cancel_session(id): remove the entry and cancel its token
CancelSession(id) ==
  /\ cancelled' = cancelled \cup CancelFires(id)
  /\ tokens' = MapRemove(tokens, id)
  /\ sinceCancel' = IF HasSessionToken(id) THEN sinceCancel \cup {id} ELSE sinceCancel
  /\ UNCHANGED replaced

\* cancel_session's return value: whether a token was found
CancelSessionResult(id) == HasSessionToken(id)

\* set_session_paused(id, paused)
SetSessionPaused(id, paused) ==
  /\ pauseFlags' = SetPausedMap(pauseFlags, id, paused)
  /\ lastSet' = [lastSet EXCEPT ![id] = IF paused THEN "true" ELSE "false"]

\* remove_session_pause_flag(id)
RemoveSessionPauseFlag(id) ==
  /\ pauseFlags' = MapRemove(pauseFlags, id)
  /\ lastSet' = [lastSet EXCEPT ![id] = "unset"]

\* ------------------------------------- RegistrySpec: any sequence of calls
CallRegister(id, tok) ==
  /\ RegisterSessionToken(id, tok)
  /\ ret' = Ret("register", id, TRUE)
  /\ UNCHANGED <<persistVars, items, urls, backoffMs, chunks, pauseFlags, lastSet, sessVars, retries, execVars, events>>

CallUnregister(id) ==
  /\ UnregisterSessionToken(id)
  /\ ret' = Ret("unregister", id, TRUE)
  /\ UNCHANGED <<persistVars, items, urls, backoffMs, chunks, pauseFlags, lastSet, sessVars, retries, execVars, events>>

CallCancel(id) ==
  /\ CancelSession(id)
  /\ ret' = Ret("cancel", id, CancelSessionResult(id))
  /\ UNCHANGED <<persistVars, items, urls, backoffMs, chunks, pauseFlags, lastSet, sessVars, retries, execVars, events>>

CallHas(id) ==
  /\ ret' = Ret("has", id, HasSessionToken(id))
  /\ UNCHANGED <<persistVars, items, urls, backoffMs, chunks, tokens, cancelled, sinceCancel, replaced, pauseFlags, lastSet, sessVars,
                 retries, execVars, events>>

CallSetPaused(id, paused) ==
  /\ SetSessionPaused(id, paused)
  /\ ret' = Ret("set_paused", id, TRUE)
  /\ UNCHANGED <<persistVars, items, urls, backoffMs, chunks, tokens, cancelled, sinceCancel, replaced, sessVars, retries, execVars, events>>

CallIsPaused(id) ==
  /\ ret' = Ret("is_paused", id, IsSessionPaused(id))
  /\ UNCHANGED <<persistVars, items, urls, backoffMs, chunks, tokens, cancelled, sinceCancel, replaced, pauseFlags, lastSet, sessVars,
                 retries, execVars, events>>

CallRemovePause(id) ==
  /\ RemoveSessionPauseFlag(id)
  /\ ret' = Ret("remove_pause", id, TRUE)
  /\ UNCHANGED <<persistVars, items, urls, backoffMs, chunks, tokens, cancelled, sinceCancel, replaced, sessVars, retries, execVars, events>>

\* ------------------------------------------------------------ persistence
\* the filename emit_progress gives an executor's item: the item's own, else
\* the last segment of the url
FilenameOf(e) == IF UrlOf(e) = "a" THEN "f1" ELSE "f2"
\* session-<sid>.db
DbOf(e) == SessionOf(e)

Filenames == {"f1", "f2"}
TerminalAlsoDownloading(status) == status \in {"completed", "failed", "cancelled", "downloading"}

\* the statuses emit_progress also records in the history store
Terminal(status) == status \in {"completed", "failed", "cancelled"}

WriteJob(db, url, filename, status) ==
  [db |-> db, url |-> url, filename |-> filename, status |-> status]
\* the row a job writes: the columns url, filename, status of the progress
\* table, in the order of the INSERT (the numeric columns are left out)
Row(job) == <<job.url, job.filename, job.status>>
\* what was submitted for a url, as read_all is to give it back
Submitted(job) == [url |-> job.url, filename |-> job.filename, status |-> job.status]
NoRow == [url |-> "none", filename |-> "none", status |-> "none"]

HistoryJob(id, sid, url, status, size) ==
  [id |-> id, session_id |-> sid, url |-> url, status |-> status, size |-> size]
\* the row a history job writes: the columns id, session_id, url, status, size
HistoryRow(job) == <<job.id, job.session_id, job.url, job.status, job.size>>

\* ------------------------------------------------------ filename of an item
\* a name is a sequence of characters and, after a dot, extension tokens; a
\* content-type is the sequence of its tokens
Chars == {"n", ".", "?"}
Segments == UNION {[1..n -> Chars] : n \in 0..MaxSeg}
ContentTypes ==
  {<< >>, <<"image", "/", "png">>, <<"image", "/", "jpeg">>, <<"application", "/", "json">>,
   <<"text", "/", "plain">>, <<"application", "/", "octet-stream">>}
\* item.filename: None, or Some(name)
None == [some |-> FALSE, name |-> << >>]
Some(name) == [some |-> TRUE, name |-> name]
NoName == [done |-> FALSE, name |-> << >>]
NoRequest == [filename |-> None, segment |-> << >>, contentType |-> << >>]

\* str::contains
Contains(str, tok) == \E i \in 1..Len(str) : str[i] = tok
\* str::ends_with('.')
EndsWithDot(str) == str # << >> /\ str[Len(str)] = "."
\* .split('?').next(): the part before the first '?'
BeforeQuery(str) ==
  IF Contains(str, "?")
    THEN SubSeq(str, 1, (CHOOSE i \in 1..Len(str) :
                           str[i] = "?" /\ \A j \in 1..(i - 1) : str[j] # "?") - 1)
    ELSE str
\* str::trim_end_matches('.')
RECURSIVE TrimEndDots(_)
TrimEndDots(str) ==
  IF EndsWithDot(str) THEN TrimEndDots(SubSeq(str, 1, Len(str) - 1)) ELSE str

\* determine_filename's extension for a content-type
ContentTypeExt(ct) ==
  IF Contains(ct, "jpeg") \/ Contains(ct, "jpg") THEN "jpg"
  ELSE IF Contains(ct, "png") THEN "png"
  ELSE IF Contains(ct, "gif") THEN "gif"
  ELSE IF Contains(ct, "webp") THEN "webp"
  ELSE IF Contains(ct, "mp4") THEN "mp4"
  ELSE IF Contains(ct, "webm") THEN "webm"
  ELSE IF Contains(ct, "pdf") THEN "pdf"
  ELSE IF Contains(ct, "zip") THEN "zip"
  ELSE IF Contains(ct, "json") THEN "json"
  ELSE IF Contains(ct, "text") THEN "txt"
  ELSE "bin"

\* determine_filename(url, content_type), url being given by its last segment
DetermineFilename(segment, ct) ==
  LET url_filename == BeforeQuery(segment) IN
    IF Contains(url_filename, ".") /\ ~EndsWithDot(url_filename) /\ Len(url_filename) > 1
      THEN url_filename
      ELSE TrimEndDots(url_filename) \o <<".", ContentTypeExt(ct)>>

\* download_once_with_emit's fallback extension
FallbackExt(ct) == IF Contains(ct, "json") THEN "json" ELSE "bin"

\* download_once_with_emit: "Determine filename"
Filename(r) ==
  IF r.filename.some THEN r.filename.name
  ELSE LET url_filename == BeforeQuery(r.segment) IN
         IF Contains(url_filename, ".") /\ ~EndsWithDot(url_filename)
           THEN url_filename
           ELSE TrimEndDots(url_filename) \o <<".", FallbackExt(r.contentType)>>

\* history.json, the legacy history file: absent, a History object
\* {"items": [...]}, or the array "[]" that the migration leaves behind
NoLegacy == [form |-> "absent", items |-> << >>]
LegacyFile(recs) == [form |-> "object", items |-> recs]
Truncated == [form |-> "array", items |-> << >>]
\* DownloadRecord: "Completed" | "Failed" | "Deleted"
RecordStatuses == {"Completed", "Failed", "Deleted"}
\* (every record has the url "a" and no size here)
DownloadRecord(id, sid, status) ==
  [id |-> id, session_id |-> sid, url |-> "a", status |-> status, size |-> NoLen]

\* load_history: the parsed History, or the default (no items) when the file
\* is absent or does not parse as a History
LoadHistory(file) == IF file.form = "object" THEN file.items ELSE << >>

\* the store files: session-<sid>.db (named by the session here), history.db
\* and scrape.db
HistoryDb == "history.db"
ScrapeDb == "scrape.db"
StoreFiles == Sessions \cup {HistoryDb, ScrapeDb}

\* enqueue_scrape_item's job and the row it writes: the columns session_key,
\* url, title of the scrape table
ScrapeJob(key, url, title) == [session_key |-> key, url |-> url, title |-> title]
ScrapeRow(job) == <<job.session_key, job.url, job.title>>

OpenWithoutSchema(d) == IF d = "absent" THEN "file" ELSE d

\* Connection::open creates the file when it is absent, and the
\* CREATE TABLE IF NOT EXISTS that follows creates the table when it is
OpenStore(d) == "table"

\* a job the store rejected: the connection was opened, so the file exists;
\* the table exists if the failure came after the CREATE TABLE
AfterReject(d) == IF d = "table" THEN {"table"} ELSE {"file", "table"}

\* what a read command returns
Ok(rows) == [state |-> "ok", rows |-> rows]
ReadErr == [state |-> "err", rows |-> {}]
NoRead == [state |-> "none", rows |-> {}]

\* conn.prepare("SELECT ... FROM <table> ...") and the collection of its
\* rows: an error when the table does not exist
Select(d, rows) == IF d = "table" THEN Ok(rows) ELSE ReadErr

InsertRows(rows, rec) == rows \cup {rec}

\* INSERT INTO progress ... ON CONFLICT(url) DO UPDATE SET ...
UpsertRows(rows, rec) == {r \in rows : r[1] # rec[1]} \cup {rec}

\* read_all: every row of the table as a JSON object
ReadAll(rows) ==
  {[url |-> r[1], filename |-> r[2], status |-> r[3]] : r \in rows}

InsertHistoryRows(rows, rec) == rows \cup {rec}

\* INSERT OR REPLACE INTO history, id being the primary key
ReplaceRows(rows, rec) == {r \in rows : r[1] # rec[1]} \cup {rec}

\* read_history: every row of the table as a JSON object
ReadHistory(rows) ==
  {[id |-> r[1], session_id |-> r[2], url |-> r[3], status |-> r[4],
    size |-> r[5]] : r \in rows}

\* INSERT INTO scrape ... ON CONFLICT(session_key, url) DO UPDATE SET ...
UpsertScrape(rows, rec) ==
  {r \in rows : ~(r[1] = rec[1] /\ r[2] = rec[2])} \cup {rec}

\* read_scrape_items: the rows of one session_key as JSON objects
ReadScrapeItems(rows, key) ==
  {[url |-> r[2], title |-> r[3]] : r \in {x \in rows : x[1] = key}}

\* tx.send(job): the unbounded channel takes the job, unless the worker's
\* receiver is gone, when send fails and the job is lost
Send(w, q, job) == IF w = "dead" THEN q ELSE Append(q, job)
\* ensure_*_writer: get_or_init starts the worker thread at the first call
Started(w) == IF w = "none" THEN "alive" ELSE w

DequeueNewest(q) == [job |-> q[Len(q)], rest |-> SubSeq(q, 1, Len(q) - 1)]

\* for job in rx: the worker receives the jobs in the order they were sent
Dequeue(q) == [job |-> Head(q), rest |-> Tail(q)]

\* the status emit_progress is called with when the executor returns
TerminalStatus(kind) ==
  IF kind = "Completed" THEN "completed"
  ELSE IF kind = "Failed" THEN "failed"
  ELSE IF kind = "Canceled" THEN "cancelled" ELSE "none"

\* the urls, or ids, of the jobs in a channel
UrlsIn(q) == {q[i].url : i \in 1..Len(q)}
IdsIn(q) == {q[i].id : i \in 1..Len(q)}

EnqueueProgressBlocksWhenDead(job) ==
  /\ writer # "dead"
  /\ queue' = Append(queue, job)
  /\ writer' = Started(writer)
  /\ lastEnq' = [lastEnq EXCEPT ![job.url] = Submitted(job)]
  /\ UNCHANGED <<conns, store, dropped>>

\* enqueue_progress(job)
EnqueueProgress(job) ==
  /\ queue' = Send(writer, queue, job)
  /\ writer' = Started(writer)
  /\ lastEnq' = IF writer = "dead" THEN lastEnq
                 ELSE [lastEnq EXCEPT ![job.url] = Submitted(job)]
  /\ UNCHANGED <<conns, store, dropped>>

\* enqueue_history_record(job)
EnqueueHistoryRecord(job) ==
  /\ hqueue' = Send(hwriter, hqueue, job)
  /\ hwriter' = Started(hwriter)
  /\ lastSub' = IF hwriter = "dead" THEN lastSub ELSE MapInsert(lastSub, job.id, job)
  /\ UNCHANGED <<hconn, hstore, hdropped>>

\* an f32 quotient, kept as numerator and denominator (x / 0.0 is inf or NaN)
Quotient(n, d) == [num |-> n, den |-> d]
\* the literals 0.0 and 1.0
Zero == Quotient(0, 1)
One == Quotient(1, 1)
\* total_size.unwrap_or(1)
UnwrapOr(tot, dflt) == IF tot = NoLen THEN dflt ELSE tot

\* progress_ratio of the chunk arm: Some(t) if t > 0 => downloaded / t, _ => 0.0
RatioDownloading(dl, tot) == IF tot # NoLen /\ tot > 0 THEN Quotient(dl, tot) ELSE Zero
\* the progress argument of the cancelled and paused calls of the streaming loop
RatioStreaming(dl, tot) == Quotient(dl, UnwrapOr(tot, 1))

\* the download_progress payload: status, progress, downloaded, total
Payload(status, progress, dl, tot) ==
  [status |-> status, progress |-> progress, downloaded |-> dl, total |-> tot]

\* the arguments emit_progress is called with, by call site: the retry loop
\* (cancelled before an attempt, failed), the top of the streaming loop
\* (cancelled, paused), the chunk arm (downloading, after downloaded += len)
\* and the end of the stream (completed)
ProgressArgs(e, status) ==
  IF status = "failed" \/ pc[e] = "loop" THEN Payload(status, Zero, 0, NoLen)
  ELSE IF status = "downloading"
    THEN Payload(status, RatioDownloading(downloaded[e] + 1, total[e]), downloaded[e] + 1, total[e])
  ELSE IF status = "completed" THEN Payload(status, One, downloaded[e], total[e])
  ELSE Payload(status, RatioStreaming(downloaded[e], total[e]), downloaded[e], total[e])

\* emit_progress with a session id: the progress write, and for a terminal
\* status a history record under a fresh uuid (a uuid that no channel takes
\* is not counted)
EmitProgress(e, status) ==
  /\ EnqueueProgress(WriteJob(DbOf(e), UrlOf(e), FilenameOf(e), status))
  /\ owners' = IF writer = "dead" THEN owners
                ELSE [owners EXCEPT ![UrlOf(e)] = @ \cup {e}]
  /\ IF Terminal(status)
       THEN /\ EnqueueHistoryRecord(
                 HistoryJob(nextId, SessionOf(e), UrlOf(e), status,
                            IF status = "completed" THEN downloaded[e] ELSE NoLen))
            /\ nextId' = IF hwriter = "dead" THEN nextId ELSE nextId + 1
       ELSE UNCHANGED historyVars
  /\ UNCHANGED <<scrapeVars, disk, readVars, commandVars>>

\* the progress writer takes a job and writes it
WriterApply ==
  /\ writer = "alive" /\ queue # << >>
  /\ LET d == Dequeue(queue) IN
       /\ queue' = d.rest
       /\ conns' = conns \cup {d.job.db}
       /\ store' = [store EXCEPT ![d.job.db] = UpsertRows(@, Row(d.job))]
       /\ disk' = [disk EXCEPT ![d.job.db] = OpenStore(@)]
  /\ UNCHANGED <<writer, lastEnq, dropped, owners, historyVars, scrapeVars, readVars, commandVars>>
  /\ UNCHANGED <<items, urls, backoffMs, chunks, regVars, sessVars, retries, execVars, events>>

\* the progress writer takes a job and the store rejects it (pragma, schema
\* or insert fails): the error is printed and the job is gone
WriterRejects ==
  /\ writer = "alive" /\ queue # << >>
  /\ LET d == Dequeue(queue) IN
       /\ queue' = d.rest
       /\ conns' = conns \cup {d.job.db}
       /\ dropped' = dropped \cup {d.job.url}
       /\ \E after \in AfterReject(disk[d.job.db]) :
            disk' = [disk EXCEPT ![d.job.db] = after]
  /\ UNCHANGED <<writer, store, lastEnq, owners, historyVars, scrapeVars, readVars, commandVars>>
  /\ UNCHANGED <<items, urls, backoffMs, chunks, regVars, sessVars, retries, execVars, events>>

\* the progress writer takes a job for a store it has not opened and
\* Connection::open fails: expect("open conn") panics, the thread ends and
\* the receiver is dropped with whatever the channel holds
WriterPanics ==
  /\ writer = "alive" /\ queue # << >>
  /\ Dequeue(queue).job.db \notin conns
  /\ writer' = "dead"
  /\ queue' = << >>
  /\ dropped' = dropped \cup UrlsIn(queue)
  /\ UNCHANGED <<conns, store, lastEnq, owners, historyVars, scrapeVars, disk, readVars, commandVars>>
  /\ UNCHANGED <<items, urls, backoffMs, chunks, regVars, sessVars, retries, execVars, events>>

\* the history writer takes a job and writes it
HistoryApply ==
  /\ hwriter = "alive" /\ hqueue # << >>
  /\ LET d == Dequeue(hqueue) IN
       /\ hqueue' = d.rest
       /\ hstore' = ReplaceRows(hstore, HistoryRow(d.job))
  /\ hconn' = TRUE
  /\ disk' = [disk EXCEPT ![HistoryDb] = OpenStore(@)]
  /\ UNCHANGED <<hwriter, nextId, lastSub, hdropped, progressVars, scrapeVars, readVars, commandVars>>
  /\ UNCHANGED <<items, urls, backoffMs, chunks, regVars, sessVars, retries, execVars, events>>

\* the history writer takes a job and the store rejects it: the error is
\* discarded and the job is gone
HistoryRejects ==
  /\ hwriter = "alive" /\ hqueue # << >>
  /\ LET d == Dequeue(hqueue) IN
       /\ hqueue' = d.rest
       /\ hdropped' = hdropped \cup {d.job.id}
  /\ hconn' = TRUE
  /\ \E after \in AfterReject(disk[HistoryDb]) :
       disk' = [disk EXCEPT ![HistoryDb] = after]
  /\ UNCHANGED <<hwriter, hstore, nextId, lastSub, progressVars, scrapeVars, readVars, commandVars>>
  /\ UNCHANGED <<items, urls, backoffMs, chunks, regVars, sessVars, retries, execVars, events>>

\* the history writer cannot open history.db: expect("open history conn")
\* panics and the thread ends
HistoryPanics ==
  /\ hwriter = "alive" /\ hqueue # << >>
  /\ ~hconn
  /\ hwriter' = "dead"
  /\ hqueue' = << >>
  /\ hdropped' = hdropped \cup IdsIn(hqueue)
  /\ UNCHANGED <<hconn, hstore, nextId, lastSub, progressVars, scrapeVars, disk, readVars, commandVars>>
  /\ UNCHANGED <<items, urls, backoffMs, chunks, regVars, sessVars, retries, execVars, events>>

\* enqueue_scrape_item(job)
EnqueueScrapeItem(job) ==
  /\ squeue' = Send(swriter, squeue, job)
  /\ swriter' = Started(swriter)
  /\ UNCHANGED <<sconn, sstore>>

\* the scrape writer takes a job and writes it
ScrapeApply ==
  /\ swriter = "alive" /\ squeue # << >>
  /\ LET d == Dequeue(squeue) IN
       /\ squeue' = d.rest
       /\ sstore' = UpsertScrape(sstore, ScrapeRow(d.job))
  /\ sconn' = TRUE
  /\ disk' = [disk EXCEPT ![ScrapeDb] = OpenStore(@)]
  /\ UNCHANGED <<swriter, progressVars, historyVars, readVars, commandVars>>
  /\ UNCHANGED <<items, urls, backoffMs, chunks, regVars, sessVars, retries, execVars, events>>

\* the scrape writer takes a job and the store rejects it: the error is
\* discarded and the job is gone
ScrapeRejects ==
  /\ swriter = "alive" /\ squeue # << >>
  /\ squeue' = Dequeue(squeue).rest
  /\ sconn' = TRUE
  /\ \E after \in AfterReject(disk[ScrapeDb]) :
       disk' = [disk EXCEPT ![ScrapeDb] = after]
  /\ UNCHANGED <<swriter, sstore, progressVars, historyVars, readVars, commandVars>>
  /\ UNCHANGED <<items, urls, backoffMs, chunks, regVars, sessVars, retries, execVars, events>>

\* the scrape writer cannot open scrape.db: expect("open scrape conn")
\* panics and the thread ends
ScrapePanics ==
  /\ swriter = "alive" /\ squeue # << >>
  /\ ~sconn
  /\ swriter' = "dead"
  /\ squeue' = << >>
  /\ UNCHANGED <<sconn, sstore, disk, progressVars, historyVars, readVars, commandVars>>
  /\ UNCHANGED <<items, urls, backoffMs, chunks, regVars, sessVars, retries, execVars, events>>

\* ---------------------------------------------------------------- initial
NoResult == [kind |-> "None", size |-> 0, msg |-> [kind |-> "none", expected |-> 0, got |-> 0]]
NoErr == [kind |-> "none", expected |-> 0, got |-> 0]

InitRegistries ==
  /\ tokens = << >>
  /\ cancelled = {}
  /\ pauseFlags = << >>
  /\ ret = [op |-> "none", id |-> "s1", result |-> FALSE, seq |-> 0]
  /\ sinceCancel = {}
  /\ replaced = {}
  /\ lastSet = [id \in Ids |-> "unset"]

\* the stores are empty and the channels hold nothing
InitStores ==
  /\ queue = << >> /\ conns = {} /\ store = [s \in Sessions |-> {}]
  /\ hqueue = << >> /\ hconn = FALSE /\ hstore = {} /\ nextId = 1
  /\ readBack = {}
  /\ readRet = [f \in StoreFiles |-> NoRead]
  /\ disk = [f \in StoreFiles |-> "absent"]
  /\ squeue = << >> /\ sconn = FALSE /\ sstore = {}
  /\ summaries = << >>
  /\ migrated = "none" /\ replayed = {}
  /\ resolved = NoName
  /\ lastEnq = [u \in Executors |-> NoRow] /\ dropped = {}
  /\ owners = [u \in Executors |-> {}]
  /\ lastSub = << >> /\ hdropped = {}

\* both writer threads have ended on a store they could not open
WritersGone == InitStores /\ legacy = NoLegacy /\ req = NoRequest /\ writer = "dead" /\ hwriter = "dead" /\ swriter = "dead"
\* no enqueue yet: the OnceLocks are empty
WritersFresh == InitStores /\ legacy = NoLegacy /\ req = NoRequest /\ writer = "none" /\ hwriter = "none" /\ swriter = "none"

InitRest ==
  /\ sess = [s \in Sessions |-> "new"]
  /\ spawned = [s \in Sessions |-> 0]
  /\ permits = [s \in Sessions |-> 0]
  /\ pc = [e \in Executors |-> "idle"]
  /\ attempt = [e \in Executors |-> 0]
  /\ tries = [e \in Executors |-> 0]
  /\ slack = [e \in Executors |-> 0]
  /\ slept = [e \in Executors |-> << >>]
  /\ total = [e \in Executors |-> NoLen]
  /\ downloaded = [e \in Executors |-> 0]
  /\ lastErr = [e \in Executors |-> NoErr]
  /\ result = [e \in Executors |-> NoResult]
  /\ fs = [p \in {PathOf(e) : e \in Executors} |-> NoFile]
  /\ events = {}

RegistryInit ==
  /\ InitRegistries /\ urls = DistinctUrls /\ InitRest /\ backoffMs = 1 /\ chunks = MaxBytes /\ WritersGone /\ retries = 0 /\ configuredAll = 0
  /\ items = OneSession

RegistryNext ==
  \/ \E id \in Sessions, tok \in Tokens : CallRegister(id, tok)
  \/ \E id \in Sessions : CallUnregister(id)
  \/ \E id \in Sessions : CallCancel(id)
  \/ \E id \in Sessions : CallHas(id)
  \/ \E id \in Sessions, paused \in BOOLEAN : CallSetPaused(id, paused)
  \/ \E id \in Sessions : CallIsPaused(id)
  \/ \E id \in Sessions : CallRemovePause(id)

RegistrySpec == RegistryInit /\ [][RegistryNext]_vars


\* ------------------------------------------------------------ Downloader
WithConcurrencyOneMore(n) == Max(1, n) + 1

\* Downloader::with_concurrency: Semaphore::new(max(1, concurrency))
WithConcurrency(n) == Max(1, n)

PermitAvailableOffByOne(s) == permits[s] >= 0

\* the semaphore has a permit to hand out
PermitAvailable(s) == permits[s] > 0

IsCancelledNever(e) == FALSE

\* the session's token, as the executor's cancel_token.is_cancelled() sees it
IsCancelled(e) == TokenOf(SessionOf(e)) \in cancelled

\* the executors that hold a permit: past acquire().await, not yet returned
Holding == {e \in Executors : pc[e] \notin {"idle", "acquire", "done"}}
HoldingOf(s) == {e \in Holding : SessionOf(e) = s}
\* the executors of a session
ExecutorsOf(s) == {items[s][i] : i \in 1..Len(items[s])} \ {Malformed}

Completed(n) == [kind |-> "Completed", size |-> n, msg |-> NoErr]
Failed(err) == [kind |-> "Failed", size |-> 0, msg |-> err]
Canceled == [kind |-> "Canceled", size |-> 0, msg |-> NoErr]
Err(kind) == [kind |-> kind, expected |-> 0, got |-> 0]
\* "Incomplete download: expected {} bytes, got {} bytes"
Incomplete(expected, got) == [kind |-> "incomplete", expected |-> expected, got |-> got]

ExhaustedOneEarly(att, r) == att >= r

\* the retry loop's exit test after a failed attempt
Exhausted(att, r) == att > r

SizeMismatchIgnored(tot, dl) == FALSE

\* the size check of download_once_with_emit: Some(expected), downloaded != expected
SizeMismatch(tot, dl) == tot # NoLen /\ dl # tot

ReturnKeepsPermitOnError(e, status) ==
  /\ result' = [result EXCEPT ![e] = status]
  /\ pc' = [pc EXCEPT ![e] = "done"]
  /\ permits' = [permits EXCEPT ![SessionOf(e)] =
                   IF status.kind = "Completed" THEN @ + 1 ELSE @]

ReturnFailedStopsSiblings(e, status) ==
  /\ result' = [x \in Executors |->
                  IF x = e THEN status
                  ELSE IF status.kind = "Failed" /\ pc[x] \notin {"idle", "done"}
                         THEN Canceled ELSE result[x]]
  /\ pc' = [x \in Executors |->
              IF x = e \/ (status.kind = "Failed" /\ pc[x] \notin {"idle", "done"})
                THEN "done" ELSE pc[x]]
  /\ permits' = [permits EXCEPT ![SessionOf(e)] = @ + 1]

\* download_with_progress returns: _permit is dropped, the status handed back
Return(e, status) ==
  /\ result' = [result EXCEPT ![e] = status]
  /\ pc' = [pc EXCEPT ![e] = "done"]
  /\ permits' = [permits EXCEPT ![SessionOf(e)] = @ + 1]

\* download_once_with_emit returns: total_size and downloaded go out of scope
DropLocals(e) ==
  /\ total' = [total EXCEPT ![e] = NoLen]
  /\ downloaded' = [downloaded EXCEPT ![e] = 0]

\* download_once_with_emit returned Err(err): the Err arm of the retry loop
AttemptFailed(e, err) ==
  /\ attempt' = [attempt EXCEPT ![e] = @ + 1]
  /\ DropLocals(e)
  /\ IF Exhausted(attempt[e] + 1, retries)
       THEN /\ Return(e, Failed(err))
            /\ lastErr' = [lastErr EXCEPT ![e] = err]
            /\ EmitProgress(e, "failed")
       ELSE /\ pc' = [pc EXCEPT ![e] = "backoff"]
            /\ lastErr' = [lastErr EXCEPT ![e] = err]
            /\ UNCHANGED <<result, permits, persistVars>>

\* self.semaphore.acquire().await
Acquire(e) ==
  /\ pc[e] = "acquire"
  /\ PermitAvailable(SessionOf(e))
  /\ permits' = [permits EXCEPT ![SessionOf(e)] = @ - 1]
  /\ pc' = [pc EXCEPT ![e] = "loop"]
  /\ UNCHANGED <<persistVars, items, urls, backoffMs, chunks, regVars, sess, spawned, configuredAll, retries, attempt, tries, slack, slept, total,
                 downloaded, lastErr, result, fs, events>>

\* top of the retry loop: the cancellation check, then the request is sent
LoopTop(e) ==
  /\ pc[e] = "loop"
  /\ IF IsCancelled(e)
       THEN /\ EmitProgress(e, "cancelled")
            /\ Return(e, Canceled)
            /\ UNCHANGED tries
       ELSE /\ pc' = [pc EXCEPT ![e] = "send"]
            /\ tries' = [tries EXCEPT ![e] = @ + 1]
            /\ UNCHANGED <<result, permits, persistVars>>
  /\ UNCHANGED <<items, urls, backoffMs, chunks, regVars, sess, spawned, configuredAll, retries, attempt, slack, slept, total,
                 downloaded, lastErr, fs, events>>

\* req.send().await fails, or the status is not 2xx
ResponseError(e) ==
  /\ pc[e] = "send"
  /\ AttemptFailed(e, Err("transport"))
  /\ UNCHANGED <<items, urls, backoffMs, chunks, regVars, sess, spawned, configuredAll, retries, tries, slack, slept, fs, events>>

\* a 2xx response, with or without content-length; File::create truncates
ResponseOk(e) ==
  /\ pc[e] = "send"
  /\ \E cl \in {NoLen} \cup 0..MaxBytes :
       /\ total' = [total EXCEPT ![e] = cl]
       /\ fs' = [fs EXCEPT ![PathOf(e)] = 0]
       /\ pc' = [pc EXCEPT ![e] = "stream"]
  /\ UNCHANGED <<persistVars, items, urls, backoffMs, chunks, regVars, sessVars, retries, attempt, tries, slack, slept, downloaded, lastErr,
                 result, events>>

\* a 2xx response, but File::create(&path) fails
CreateFails(e) ==
  /\ pc[e] = "send"
  /\ AttemptFailed(e, Err("io"))
  /\ UNCHANGED <<items, urls, backoffMs, chunks, regVars, sess, spawned, configuredAll, retries, tries, slack, slept, fs, events>>

\* the task panicked: it has no status, and the unwinding dropped its permit
Panicked == [kind |-> "Panicked", size |-> 0, msg |-> NoErr]

\* backoff_ms * attempt as u64: the product in the width of the type
BackoffDelay(base, att) == (base * att) % (MaxDelay + 1)
\* the product does not fit the type
Overflows(base, att) == base * att > MaxDelay

\* tokio::time::sleep(backoff_ms * attempt) is over; a product that
\* overflows wraps around (overflow checks off, as in a release build) or
\* panics the task (overflow checks on)
Backoff(e) ==
  /\ pc[e] = "backoff"
  /\ \/ /\ pc' = [pc EXCEPT ![e] = "loop"]
        /\ slept' = [slept EXCEPT ![e] = Append(@, BackoffDelay(backoffMs, attempt[e]))]
        /\ lastErr' = [lastErr EXCEPT ![e] = NoErr]
        /\ UNCHANGED <<result, permits>>
     \/ /\ Overflows(backoffMs, attempt[e])
        /\ Return(e, Panicked)
        /\ UNCHANGED <<slept, lastErr>>
  /\ UNCHANGED <<persistVars, items, urls, backoffMs, chunks, regVars, sess, spawned, configuredAll, retries,
                 attempt, tries, slack, total, downloaded, fs, events>>

AfterPauseCheckIgnoresFlag(e) == "read"

\* the pause check of the streaming loop: sleep and re-check while the
\* session's flag is set, else go on to stream.next()
AfterPauseCheck(e) == IF IsSessionPaused(SessionOf(e)) THEN "sleep" ELSE "read"

\* a.emit_all(name, {"url": q.item.url, ..}): a per-item event of the
\* transfer's progress (resumed, completed)
EmitItem(name, e) == events' = events \cup {<<name, UrlOf(e)>>}

StreamCheckPauseFirst(e) ==
  /\ pc[e] = "stream"
  /\ IF IsCancelled(e) /\ ~IsSessionPaused(SessionOf(e))
       THEN /\ EmitProgress(e, "cancelled")
            /\ fs' = [fs EXCEPT ![PathOf(e)] = NoFile]
            /\ DropLocals(e)
            /\ Return(e, Canceled)
       ELSE /\ pc' = [pc EXCEPT ![e] = AfterPauseCheck(e)]
            /\ IF IsSessionPaused(SessionOf(e))
                 THEN EmitProgress(e, "paused")
                 ELSE UNCHANGED persistVars
            /\ UNCHANGED <<fs, total, downloaded, result, permits>>
  /\ UNCHANGED <<items, urls, backoffMs, chunks, regVars, sess, spawned, configuredAll, retries, attempt, tries, slack, slept,
                 lastErr, events>>

\* top of the streaming loop: cancellation, then the pause flag
StreamCheck(e) ==
  /\ pc[e] = "stream"
  /\ IF IsCancelled(e)
       THEN /\ EmitProgress(e, "cancelled")
            /\ fs' = [fs EXCEPT ![PathOf(e)] = NoFile]
            /\ DropLocals(e)
            /\ Return(e, Canceled)
       ELSE /\ pc' = [pc EXCEPT ![e] = AfterPauseCheck(e)]
            /\ IF IsSessionPaused(SessionOf(e))
                 THEN EmitProgress(e, "paused")
                 ELSE UNCHANGED persistVars
            /\ UNCHANGED <<fs, total, downloaded, result, permits>>
  /\ UNCHANGED <<items, urls, backoffMs, chunks, regVars, sess, spawned, configuredAll, retries, attempt, tries, slack, slept,
                 lastErr, events>>

\* the 200 ms pause sleep is over: continue
PauseWake(e) ==
  /\ pc[e] = "sleep"
  /\ pc' = [pc EXCEPT ![e] = "stream"]
  /\ UNCHANGED <<persistVars, items, urls, backoffMs, chunks, regVars, sessVars, retries, attempt, tries, slack, slept, total, downloaded,
                 lastErr, result, fs, events>>

\* file.write_all(&bytes) through a handle whose offset is off: the length
\* of the file afterwards (one byte per chunk); after remove_file the handle
\* writes to a file that no path names
WriteAt(len, off) == IF len = NoFile THEN NoFile ELSE Max(len, off + 1)

AfterChunkSkipsCheck(e) == "read"

\* after a chunk the loop goes back to its top: the cancellation check
AfterChunk(e) == "stream"

\* stream.next() gives a chunk and write_all succeeds
ChunkWritten(e) ==
  /\ pc[e] = "read"
  /\ downloaded[e] < chunks
  /\ downloaded' = [downloaded EXCEPT ![e] = @ + 1]
  /\ fs' = [fs EXCEPT ![PathOf(e)] = WriteAt(@, downloaded[e])]
  /\ EmitProgress(e, "downloading")
  /\ pc' = [pc EXCEPT ![e] = AfterChunk(e)]
  /\ EmitItem("download_item_resumed", e)
  /\ slack' = [slack EXCEPT ![e] = IF IsCancelled(e) THEN @ + 1 ELSE @]
  /\ UNCHANGED <<items, urls, backoffMs, chunks, regVars, sessVars, retries, attempt, tries, slept, total, lastErr,
                 result>>

\* stream.next() gives an error, or write_all / flush fails
ChunkError(e) ==
  /\ pc[e] = "read"
  /\ \E kind \in {"transport", "io"} : AttemptFailed(e, Err(kind))
  /\ UNCHANGED <<items, urls, backoffMs, chunks, regVars, sess, spawned, configuredAll, retries, tries, slack, slept, fs, events>>

\* stream.next() gives None: flush, verify the size, complete
EndOfStream(e) ==
  /\ pc[e] = "read"
  /\ IF SizeMismatch(total[e], downloaded[e])
       THEN /\ AttemptFailed(e, Incomplete(total[e], downloaded[e]))
            /\ UNCHANGED events
       ELSE /\ EmitProgress(e, "completed")
            /\ EmitItem("download_item_completed", e)
            /\ Return(e, Completed(downloaded[e]))
            /\ DropLocals(e)
            /\ UNCHANGED <<attempt, lastErr>>
  /\ UNCHANGED <<items, urls, backoffMs, chunks, regVars, sess, spawned, configuredAll, retries, tries, slack, slept, fs>>


\* ------------------------------------------------- start_download_session
Emit(name, id) == events' = events \cup {<<name, id>>}

StartDownloadSessionWithoutToken(s) ==
  /\ s \in DOMAIN items
  /\ sess[s] = "new"
  /\ permits' = [permits EXCEPT ![s] = WithConcurrency(configuredAll)]
  /\ Emit("download_session_started", s)
  /\ sess' = [sess EXCEPT ![s] = "spawn"]
  /\ UNCHANGED <<persistVars, items, urls, backoffMs, chunks, regVars, spawned, configuredAll, retries, execVars>>

\* the command up to tokio::spawn: build the Downloader, register the token
StartDownloadSession(s) ==
  /\ s \in DOMAIN items
  /\ sess[s] = "new"
  /\ permits' = [permits EXCEPT ![s] = WithConcurrency(configuredAll)]
  /\ RegisterSessionToken(s, TokenOf(s))
  /\ Emit("download_session_started", s)
  /\ sess' = [sess EXCEPT ![s] = "spawn"]
  /\ UNCHANGED <<persistVars, items, urls, backoffMs, chunks, pauseFlags, ret, lastSet, spawned, configuredAll, retries, execVars>>

NextItemStopsOnError(s, v) == IF WellFormed(v) THEN spawned[s] + 1 ELSE Len(ItemsOf(s))

\* the loop over the items goes on to the next value, parsed or not (continue)
NextItem(s, v) == spawned[s] + 1

\* one turn of the background task's loop over the items: parse the value,
\* then spawn an executor for it, or emit the parse error and skip it
SpawnItem(s) ==
  /\ sess[s] = "spawn"
  /\ spawned[s] < Len(ItemsOf(s))
  /\ LET v == ItemsOf(s)[spawned[s] + 1] IN
       /\ spawned' = [spawned EXCEPT ![s] = NextItem(s, v)]
       /\ IF WellFormed(v)
            THEN /\ pc' = [pc EXCEPT ![v] = "acquire"]
                 /\ UNCHANGED events
            ELSE /\ Emit("icnx:download_item_parse_error", s)
                 /\ UNCHANGED pc
  /\ UNCHANGED <<persistVars, items, urls, backoffMs, chunks, regVars, sess, permits, configuredAll, retries, attempt, tries, slack, slept, total,
                 downloaded, lastErr, result, fs>>

AllCompleted(s) == \A e \in ExecutorsOf(s) : result[e].kind = "Completed"

\* for h in handles { h.await }: every spawned executor has returned
AllReturned(s) == \A e \in ExecutorsOf(s) : pc[e] = "done"

JoinAllWithoutWaiting(s) ==
  /\ sess[s] = "spawn"
  /\ spawned[s] = Len(ItemsOf(s))
  /\ CancelSession(s)
  /\ sess' = [sess EXCEPT ![s] = "unregister"]
  /\ UNCHANGED <<persistVars, items, urls, backoffMs, chunks, pauseFlags, ret, lastSet, spawned, permits, configuredAll,
                 retries, execVars, events>>

\* every handle has been awaited: cancel_session(id), best effort
JoinAll(s) ==
  /\ sess[s] = "spawn"
  /\ spawned[s] = Len(ItemsOf(s))
  /\ AllReturned(s)
  /\ CancelSession(s)
  /\ sess' = [sess EXCEPT ![s] = "unregister"]
  /\ UNCHANGED <<persistVars, items, urls, backoffMs, chunks, pauseFlags, ret, lastSet, spawned, permits, configuredAll,
                 retries, execVars, events>>

\* unregister_session_token(id)
CleanupUnregister(s) ==
  /\ sess[s] = "unregister"
  /\ UnregisterSessionToken(s)
  /\ sess' = [sess EXCEPT ![s] = "unpause"]
  /\ UNCHANGED <<persistVars, items, urls, backoffMs, chunks, pauseFlags, ret, lastSet, spawned, permits, configuredAll,
                 retries, execVars, events>>

\* remove_session_pause_flag(id)
CleanupPauseFlag(s) ==
  /\ sess[s] = "unpause"
  /\ RemoveSessionPauseFlag(s)
  /\ sess' = [sess EXCEPT ![s] = "finish"]
  /\ UNCHANGED <<persistVars, items, urls, backoffMs, chunks, tokens, cancelled, ret, sinceCancel, replaced, spawned, permits, configuredAll,
                 retries, execVars, events>>

\* emit download_session_finished
EmitFinished(s) ==
  /\ sess[s] = "finish"
  /\ Emit("download_session_finished", s)
  /\ sess' = [sess EXCEPT ![s] = "cleanup"]
  /\ UNCHANGED <<persistVars, items, urls, backoffMs, chunks, regVars, spawned, permits, configuredAll,
                 retries, execVars>>

\* emit download_session_cleanup: the background task ends
EmitCleanup(s) ==
  /\ sess[s] = "cleanup"
  /\ Emit("download_session_cleanup", s)
  /\ sess' = [sess EXCEPT ![s] = "end"]
  /\ UNCHANGED <<persistVars, items, urls, backoffMs, chunks, regVars, spawned, permits, configuredAll,
                 retries, execVars>>

\* ------------------------------------------------------------- commands
\* session ids are fresh uuids: a command cannot name a session before it starts
Nameable(id) == sess[id] # "new"
\* an id that no session has
Unknown(id) == id \notin DOMAIN items

\* cancel_download_session, for any id at all
CancelDownloadSession(id) ==
  /\ Nameable(id) \/ Unknown(id)
  /\ CancelSession(id)
  /\ Emit("download_session_cancelled", id)
  /\ UNCHANGED <<persistVars, items, urls, backoffMs, chunks, pauseFlags, ret, lastSet, sessVars, retries, execVars>>

\* pause_download_session
PauseDownloadSession(id) ==
  /\ Nameable(id)
  /\ SetSessionPaused(id, TRUE)
  /\ UNCHANGED <<persistVars, items, urls, backoffMs, chunks, tokens, cancelled, ret, sinceCancel, replaced, sessVars, retries,
                 execVars, events>>

\* resume_download_session
ResumeDownloadSession(id) ==
  /\ Nameable(id)
  /\ SetSessionPaused(id, FALSE)
  /\ UNCHANGED <<persistVars, items, urls, backoffMs, chunks, tokens, cancelled, ret, sinceCancel, replaced, sessVars, retries,
                 execVars, events>>

\* ------------------------------------------------------------------ Spec
Init ==
  /\ InitRegistries /\ urls = DistinctUrls /\ InitRest /\ backoffMs = 1 /\ chunks = MaxBytes /\ WritersGone
  /\ items = OneSession
  /\ retries \in 0..MaxRetries
  /\ configuredAll \in ConcurrencySettings

Next ==
  \/ \E s \in Sessions : StartDownloadSession(s)
  \/ \E s \in Sessions : SpawnItem(s)
  \/ \E s \in Sessions : JoinAll(s)
  \/ \E s \in Sessions : CleanupUnregister(s)
  \/ \E s \in Sessions : CleanupPauseFlag(s)
  \/ \E s \in Sessions : EmitFinished(s)
  \/ \E s \in Sessions : EmitCleanup(s)
  \/ \E id \in Ids : CancelDownloadSession(id)
  \/ \E id \in Sessions : PauseDownloadSession(id)
  \/ \E id \in Sessions : ResumeDownloadSession(id)
  \/ \E e \in Executors : Acquire(e)
  \/ \E e \in Executors : LoopTop(e)
  \/ \E e \in Executors : ResponseError(e)
  \/ \E e \in Executors : ResponseOk(e)
  \/ \E e \in Executors : CreateFails(e)
  \/ \E e \in Executors : Backoff(e)
  \/ \E e \in Executors : StreamCheck(e)
  \/ \E e \in Executors : PauseWake(e)
  \/ \E e \in Executors : ChunkWritten(e)
  \/ \E e \in Executors : ChunkError(e)
  \/ \E e \in Executors : EndOfStream(e)

Spec == Init /\ [][Next]_vars

\* ---------------------------------------------------------------- SpecTwo
InitTwo ==
  /\ InitRegistries /\ urls = DistinctUrls /\ InitRest /\ backoffMs = 1 /\ chunks = MaxBytes /\ WritersGone
  /\ items = TwoSessions
  /\ retries = 0
  /\ configuredAll \in ConcurrencySettings

NextTwo ==
  \/ \E s \in Sessions : StartDownloadSession(s)
  \/ \E s \in Sessions : SpawnItem(s)
  \/ \E s \in Sessions : JoinAll(s)
  \/ \E s \in Sessions : CleanupUnregister(s)
  \/ \E s \in Sessions : CleanupPauseFlag(s)
  \/ \E s \in Sessions : EmitFinished(s)
  \/ \E s \in Sessions : EmitCleanup(s)
  \/ \E e \in Executors : Acquire(e)
  \/ \E e \in Executors : LoopTop(e)
  \/ \E e \in Executors : ResponseError(e)
  \/ \E e \in Executors : ResponseOk(e)
  \/ \E e \in Executors : CreateFails(e)
  \/ \E e \in Executors : StreamCheck(e)
  \/ \E e \in Executors : ChunkWritten(e)
  \/ \E e \in Executors : ChunkError(e)
  \/ \E e \in Executors : EndOfStream(e)

SpecTwo == InitTwo /\ [][NextTwo]_vars

\* -------------------------------------------------------------- SpecItems
\* one session whose item list holds malformed values
InitItems ==
  /\ InitRegistries /\ urls = DistinctUrls /\ InitRest /\ backoffMs = 1 /\ chunks = MaxBytes /\ WritersGone
  /\ items \in {MixedSession, NoValidItems}
  /\ retries \in 0..MaxRetries
  /\ configuredAll \in ConcurrencySettings

SpecItems == InitItems /\ [][Next]_vars

\* the steps an executor's task takes by itself once the runtime polls it
TaskStep(e) ==
  \/ Acquire(e) \/ LoopTop(e) \/ Backoff(e) \/ StreamCheck(e) \/ PauseWake(e)

\* the steps that wait for the server: the response to a request, and what
\* stream.next() yields
NetworkStep(e) ==
  \/ ResponseError(e) \/ ResponseOk(e) \/ CreateFails(e)
  \/ ChunkWritten(e) \/ ChunkError(e) \/ EndOfStream(e)

\* the steps of a session's background task
SessionStep(s) ==
  \/ SpawnItem(s) \/ JoinAll(s) \/ CleanupUnregister(s) \/ CleanupPauseFlag(s)
  \/ EmitFinished(s) \/ EmitCleanup(s)

\* the tokio runtime polls every task that can make progress; every item
\* reaches an outcome: each request is answered or fails, each stream.next()
\* yields a chunk, an error or the end (the client sets no timeout of its own)
Fairness ==
  /\ \A e \in Executors : WF_vars(TaskStep(e)) /\ WF_vars(NetworkStep(e))
  /\ \A s \in Sessions : WF_vars(SessionStep(s))

FairSpecItems == SpecItems /\ Fairness

\* -------------------------------------------------------------- OrderSpec
\* one session, its executors, the user's commands, and the history writer
\* thread at work on a store that takes every write (the progress writer has
\* ended earlier: a paused transfer enqueues a progress job every 200 ms)
OrderInit ==
  /\ InitRegistries /\ urls = DistinctUrls /\ InitRest /\ backoffMs = 1 /\ chunks = MaxBytes
  /\ InitStores /\ legacy = NoLegacy /\ req = NoRequest
  /\ writer = "dead" /\ hwriter = "none" /\ swriter = "dead"
  /\ items = OneSession
  /\ retries = 0
  /\ configuredAll = MaxConc

OrderNext ==
  \/ \E s \in Sessions : StartDownloadSession(s)
  \/ \E s \in Sessions : SpawnItem(s)
  \/ \E s \in Sessions : JoinAll(s)
  \/ \E s \in Sessions : CleanupUnregister(s)
  \/ \E s \in Sessions : CleanupPauseFlag(s)
  \/ \E s \in Sessions : EmitFinished(s)
  \/ \E s \in Sessions : EmitCleanup(s)
  \/ \E id \in Sessions : CancelDownloadSession(id)
  \/ \E id \in Sessions : PauseDownloadSession(id)
  \/ \E id \in Sessions : ResumeDownloadSession(id)
  \/ \E e \in Executors : Acquire(e)
  \/ \E e \in Executors : LoopTop(e)
  \/ \E e \in Executors : ResponseError(e)
  \/ \E e \in Executors : ResponseOk(e)
  \/ \E e \in Executors : CreateFails(e)
  \/ \E e \in Executors : StreamCheck(e)
  \/ \E e \in Executors : PauseWake(e)
  \/ \E e \in Executors : ChunkWritten(e)
  \/ \E e \in Executors : ChunkError(e)
  \/ \E e \in Executors : EndOfStream(e)
  \/ HistoryApply

OrderSpec == OrderInit /\ [][OrderNext]_vars

\* ------------------------------------------------------------- StreamSpec
\* one session whose bodies come in more than one chunk
StreamInit ==
  /\ InitRegistries /\ urls = DistinctUrls /\ InitRest /\ WritersGone
  /\ backoffMs = 1 /\ chunks = MaxBytes + 1
  /\ items = OneSession
  /\ retries = MaxRetries
  /\ configuredAll = MaxConc

StreamSpec == StreamInit /\ [][Next]_vars

\* -------------------------------------------------------------- StallSpec
\* the runtime polls every task that can make progress, but a server may
\* accept the connection and then send nothing: the client is built without
\* a timeout, so req.send() and stream.next() stay pending as long as the
\* peer is silent (no fairness on the network steps)
StallFairness ==
  /\ \A e \in Executors : WF_vars(TaskStep(e))
  /\ \A s \in Sessions : WF_vars(SessionStep(s))

StallSpec == Spec /\ StallFairness

\* --------------------------------------------------------------- FairSpec
\* Spec with every task polled and every request and read answered
FairSpec == Spec /\ Fairness

\* -------------------------------------------------------------- StoreSpec
\* the values the calls are made with
StoreUrls == {"a", "b"}
StoreStatuses == {"downloading", "completed"}
HistoryIds == {1, 2}

\* SessionDb::upsert_progress(url, filename, ..., status) returns Ok
CallUpsertProgress(db, url, filename, status) ==
  /\ store' = [store EXCEPT ![db] = UpsertRows(@, Row(WriteJob(db, url, filename, status)))]
  /\ lastEnq' = [lastEnq EXCEPT ![url] = Submitted(WriteJob(db, url, filename, status))]
  /\ disk' = [disk EXCEPT ![db] = OpenStore(@)]
  /\ UNCHANGED <<writer, queue, conns, dropped, owners, historyVars, scrapeVars, readVars, commandVars>>
  /\ UNCHANGED <<items, urls, backoffMs, chunks, regVars, sessVars, retries, execVars, events>>

\* SessionDb::read_all
CallReadAll(db) ==
  /\ readBack' = ReadAll(store[db])
  /\ disk' = [disk EXCEPT ![db] = OpenStore(@)]
  /\ UNCHANGED <<progressVars, historyVars, scrapeVars, readRet, commandVars>>
  /\ UNCHANGED <<items, urls, backoffMs, chunks, regVars, sessVars, retries, execVars, events>>

StoreInit ==
  /\ InitRegistries /\ urls = DistinctUrls /\ InitRest /\ backoffMs = 1 /\ chunks = MaxBytes /\ WritersFresh
  /\ items = OneSession /\ retries = 0 /\ configuredAll = 0

StoreNext ==
  \/ \E url \in StoreUrls, f \in Filenames, st \in StoreStatuses :
       CallUpsertProgress("s1", url, f, st)
  \/ CallReadAll("s1")

StoreSpec == StoreInit /\ [][StoreNext]_vars

\* ------------------------------------------------------------ HistorySpec
\* enqueue_history_record under an id the caller chose (the migration of
\* legacy records does so)
CallEnqueueHistory(id, url, status) ==
  /\ Len(hqueue) < MaxQueue
  /\ EnqueueHistoryRecord(HistoryJob(id, "s1", url, status,
                                      IF status = "completed" THEN 1 ELSE NoLen))
  /\ UNCHANGED <<nextId, progressVars, scrapeVars, disk, readVars, commandVars>>
  /\ UNCHANGED <<items, urls, backoffMs, chunks, regVars, sessVars, retries, execVars, events>>

\* read_history
CallReadHistory ==
  /\ readBack' = ReadHistory(hstore)
  /\ disk' = [disk EXCEPT ![HistoryDb] = OpenStore(@)]
  /\ UNCHANGED <<progressVars, historyVars, scrapeVars, readRet, commandVars>>
  /\ UNCHANGED <<items, urls, backoffMs, chunks, regVars, sessVars, retries, execVars, events>>

HistoryNext ==
  \/ \E id \in HistoryIds, st \in {"completed", "failed"} :
       CallEnqueueHistory(id, "a", st)
  \/ CallReadHistory
  \/ HistoryApply
  \/ HistoryRejects
  \/ HistoryPanics

HistorySpec == StoreInit /\ [][HistoryNext]_vars

\* ------------------------------------------------------------ PersistSpec
\* one session, its executors, a cancel command, and the progress writer
\* thread (the history writer has ended earlier)
PersistInit ==
  /\ InitRegistries /\ urls = DistinctUrls /\ InitRest /\ backoffMs = 1 /\ chunks = MaxBytes
  /\ InitStores /\ legacy = NoLegacy /\ req = NoRequest
  /\ writer = "none" /\ hwriter = "dead" /\ swriter = "dead"
  /\ items = OneSession
  /\ retries = MaxRetries
  /\ configuredAll = MaxConc

PersistNext ==
  \/ \E s \in Sessions : StartDownloadSession(s)
  \/ \E s \in Sessions : SpawnItem(s)
  \/ \E s \in Sessions : JoinAll(s)
  \/ \E s \in Sessions : CleanupUnregister(s)
  \/ \E s \in Sessions : CleanupPauseFlag(s)
  \/ \E s \in Sessions : EmitFinished(s)
  \/ \E s \in Sessions : EmitCleanup(s)
  \/ \E id \in Sessions : CancelDownloadSession(id)
  \/ \E e \in Executors : Acquire(e)
  \/ \E e \in Executors : LoopTop(e)
  \/ \E e \in Executors : ResponseError(e)
  \/ \E e \in Executors : ResponseOk(e)
  \/ \E e \in Executors : CreateFails(e)
  \/ \E e \in Executors : Backoff(e)
  \/ \E e \in Executors : StreamCheck(e)
  \/ \E e \in Executors : ChunkWritten(e)
  \/ \E e \in Executors : ChunkError(e)
  \/ \E e \in Executors : EndOfStream(e)
  \/ WriterApply
  \/ WriterRejects
  \/ WriterPanics

PersistSpec == PersistInit /\ [][PersistNext]_vars

\* ------------------------------------------------------------- RepeatSpec
\* one session of two items, whose urls differ or are the same (the loop
\* over the items spawns one executor per value and compares nothing), a
\* cancel command, and the progress writer thread
RepeatInit ==
  /\ InitRegistries /\ urls \in {DistinctUrls, RepeatedUrls} /\ InitRest /\ backoffMs = 1 /\ chunks = MaxBytes
  /\ InitStores /\ legacy = NoLegacy /\ req = NoRequest
  /\ writer = "none" /\ hwriter = "dead" /\ swriter = "dead"
  /\ items = OneSession
  /\ retries = 0
  /\ configuredAll = MaxConc

RepeatNext ==
  \/ \E s \in Sessions : StartDownloadSession(s)
  \/ \E s \in Sessions : SpawnItem(s)
  \/ \E s \in Sessions : JoinAll(s)
  \/ \E s \in Sessions : CleanupUnregister(s)
  \/ \E s \in Sessions : CleanupPauseFlag(s)
  \/ \E s \in Sessions : EmitFinished(s)
  \/ \E s \in Sessions : EmitCleanup(s)
  \/ \E id \in Sessions : CancelDownloadSession(id)
  \/ \E e \in Executors : Acquire(e)
  \/ \E e \in Executors : LoopTop(e)
  \/ \E e \in Executors : ResponseError(e)
  \/ \E e \in Executors : ResponseOk(e)
  \/ \E e \in Executors : CreateFails(e)
  \/ \E e \in Executors : StreamCheck(e)
  \/ \E e \in Executors : ChunkWritten(e)
  \/ \E e \in Executors : ChunkError(e)
  \/ \E e \in Executors : EndOfStream(e)
  \/ WriterApply
  \/ WriterRejects
  \/ WriterPanics

RepeatSpec == RepeatInit /\ [][RepeatNext]_vars

\* ------------------------------------------------------------ BackoffSpec
\* one session under every retry count up to one more than MaxRetries and
\* base delays from none to the largest the type holds; no commands
BackoffBases == {0, 1, MaxDelay}

BackoffInit ==
  /\ InitRegistries /\ urls = DistinctUrls /\ InitRest /\ chunks = MaxBytes /\ WritersGone
  /\ backoffMs \in BackoffBases
  /\ items = OneSession
  /\ retries \in 0..(MaxRetries + 1)
  /\ configuredAll = MaxConc

BackoffNext ==
  \/ \E s \in Sessions : StartDownloadSession(s)
  \/ \E s \in Sessions : SpawnItem(s)
  \/ \E s \in Sessions : JoinAll(s)
  \/ \E s \in Sessions : CleanupUnregister(s)
  \/ \E s \in Sessions : CleanupPauseFlag(s)
  \/ \E s \in Sessions : EmitFinished(s)
  \/ \E s \in Sessions : EmitCleanup(s)
  \/ \E e \in Executors : Acquire(e)
  \/ \E e \in Executors : LoopTop(e)
  \/ \E e \in Executors : ResponseError(e)
  \/ \E e \in Executors : ResponseOk(e)
  \/ \E e \in Executors : CreateFails(e)
  \/ \E e \in Executors : Backoff(e)
  \/ \E e \in Executors : StreamCheck(e)
  \/ \E e \in Executors : ChunkWritten(e)
  \/ \E e \in Executors : ChunkError(e)
  \/ \E e \in Executors : EndOfStream(e)

BackoffSpec == BackoffInit /\ [][BackoffNext]_vars

\* ------------------------------------------------------------- RecordSpec
\* one session with retries, its executors and a cancel command; both
\* channels take the executors' jobs, the writer threads are not scheduled
RecordInit ==
  /\ InitRegistries /\ urls = DistinctUrls /\ InitRest /\ backoffMs = 1 /\ chunks = MaxBytes
  /\ InitStores /\ legacy = NoLegacy /\ req = NoRequest
  /\ writer = "none" /\ hwriter = "none" /\ swriter = "dead"
  /\ items = OneSession
  /\ retries = MaxRetries
  /\ configuredAll = MaxConc

RecordNext ==
  \/ \E s \in Sessions : StartDownloadSession(s)
  \/ \E s \in Sessions : SpawnItem(s)
  \/ \E s \in Sessions : JoinAll(s)
  \/ \E s \in Sessions : CleanupUnregister(s)
  \/ \E s \in Sessions : CleanupPauseFlag(s)
  \/ \E s \in Sessions : EmitFinished(s)
  \/ \E s \in Sessions : EmitCleanup(s)
  \/ \E id \in Sessions : CancelDownloadSession(id)
  \/ \E e \in Executors : Acquire(e)
  \/ \E e \in Executors : LoopTop(e)
  \/ \E e \in Executors : ResponseError(e)
  \/ \E e \in Executors : ResponseOk(e)
  \/ \E e \in Executors : CreateFails(e)
  \/ \E e \in Executors : Backoff(e)
  \/ \E e \in Executors : StreamCheck(e)
  \/ \E e \in Executors : ChunkWritten(e)
  \/ \E e \in Executors : ChunkError(e)
  \/ \E e \in Executors : EndOfStream(e)

RecordSpec == RecordInit /\ [][RecordNext]_vars

\* ---------------------------------------------------------- CancelAllSpec
\* the Downloader's own token: CancellationToken::new() of its constructor
DownloaderToken(s) == IF s = "s1" THEN "d1" ELSE "d2"

\* Downloader::cancel_all on the Downloader of a session that has one:
\* self.cancel_token.cancel()
CancelAll(s) ==
  /\ s \in DOMAIN items /\ sess[s] # "new"
  /\ cancelled' = cancelled \cup {DownloaderToken(s)}
  /\ UNCHANGED <<persistVars, items, urls, backoffMs, chunks, tokens, pauseFlags, ret, sinceCancel, replaced, lastSet,
                 sessVars, retries, execVars, events>>

\* one session, its executors, and cancel_all on its Downloader
CancelAllInit ==
  /\ InitRegistries /\ urls = DistinctUrls /\ InitRest /\ backoffMs = 1 /\ chunks = MaxBytes /\ WritersGone
  /\ items = OneSession
  /\ retries = 0
  /\ configuredAll \in ConcurrencySettings

CancelAllNext ==
  \/ \E s \in Sessions : StartDownloadSession(s)
  \/ \E s \in Sessions : SpawnItem(s)
  \/ \E s \in Sessions : JoinAll(s)
  \/ \E s \in Sessions : CleanupUnregister(s)
  \/ \E s \in Sessions : CleanupPauseFlag(s)
  \/ \E s \in Sessions : EmitFinished(s)
  \/ \E s \in Sessions : EmitCleanup(s)
  \/ \E s \in Sessions : CancelAll(s)
  \/ \E e \in Executors : Acquire(e)
  \/ \E e \in Executors : LoopTop(e)
  \/ \E e \in Executors : ResponseError(e)
  \/ \E e \in Executors : ResponseOk(e)
  \/ \E e \in Executors : CreateFails(e)
  \/ \E e \in Executors : StreamCheck(e)
  \/ \E e \in Executors : ChunkWritten(e)
  \/ \E e \in Executors : ChunkError(e)
  \/ \E e \in Executors : EndOfStream(e)

CancelAllSpec == CancelAllInit /\ [][CancelAllNext]_vars

\* ------------------------------------------------------------ SummarySpec
\* get_download_history: by_session, the keys and each session's statuses
SessionsIn(h) == {h[i].session_id : i \in 1..Len(h)}
StatusesOf(h, sid) == {h[i].status : i \in {j \in 1..Len(h) : h[j].session_id = sid}}

\* the three flags of the loop over a session's records
HasCompleted(st) == "Completed" \in st
HasFailed(st) == "Failed" \in st
HasOther(st) == st \ {"Completed", "Failed"} # {}

SummaryStatusFailedFirst(st) ==
  IF HasFailed(st) THEN "Failed"
  ELSE IF HasCompleted(st) /\ ~HasOther(st) THEN "Completed"
  ELSE "Incomplete"

\* the status of a session's summary
SummaryStatus(st) ==
  IF HasFailed(st) /\ ~HasCompleted(st) THEN "Failed"
  ELSE IF HasCompleted(st) /\ ~HasFailed(st) /\ ~HasOther(st) THEN "Completed"
  ELSE IF HasFailed(st) /\ HasCompleted(st) THEN "Mixed"
  ELSE "Incomplete"

\* get_download_history
GetDownloadHistory ==
  /\ LET h == LoadHistory(legacy) IN
       summaries' = [sid \in SessionsIn(h) |-> SummaryStatus(StatusesOf(h, sid))]
  /\ UNCHANGED <<legacy, migrateVars, nameVars, progressVars, historyVars, scrapeVars, disk, readVars>>
  /\ UNCHANGED <<items, urls, backoffMs, chunks, regVars, sessVars, retries, execVars, events>>

\* record_failed_download: one more record, "Failed", under a fresh id
RecordFailedDownload(sid) ==
  /\ Len(LoadHistory(legacy)) < MaxRecs
  /\ legacy' = LegacyFile(Append(LoadHistory(legacy),
                                  DownloadRecord(Len(LoadHistory(legacy)) + 1, sid, "Failed")))
  /\ UNCHANGED <<summaries, migrateVars, nameVars, progressVars, historyVars, scrapeVars, disk, readVars>>
  /\ UNCHANGED <<items, urls, backoffMs, chunks, regVars, sessVars, retries, execVars, events>>

\* the histories of up to MaxRecs records, the ids being distinct
Histories ==
  UNION {{[i \in 1..n |-> DownloadRecord(i, f[i][1], f[i][2])] :
            f \in [1..n -> Sessions \X RecordStatuses]} : n \in 0..MaxRecs}

SummaryInit ==
  /\ InitRegistries /\ urls = DistinctUrls /\ InitRest /\ backoffMs = 1 /\ chunks = MaxBytes /\ InitStores
  /\ writer = "none" /\ hwriter = "none" /\ swriter = "none"
  /\ legacy \in {NoLegacy} \cup {LegacyFile(h) : h \in Histories}
  /\ req = NoRequest
  /\ items = OneSession /\ retries = 0 /\ configuredAll = 0

SummaryNext ==
  \/ GetDownloadHistory
  \/ \E sid \in Sessions : RecordFailedDownload(sid)

SummarySpec == SummaryInit /\ [][SummaryNext]_vars

\* --------------------------------------------------------------- NameSpec
\* the executor has its response and determines the item's filename
DetermineName ==
  /\ ~resolved.done
  /\ resolved' = [done |-> TRUE, name |-> Filename(req)]
  /\ UNCHANGED <<req, legacy, summaries, migrateVars, progressVars, historyVars, scrapeVars, disk, readVars>>
  /\ UNCHANGED <<items, urls, backoffMs, chunks, regVars, sessVars, retries, execVars, events>>

NameInit ==
  /\ InitRegistries /\ urls = DistinctUrls /\ InitRest /\ backoffMs = 1 /\ chunks = MaxBytes /\ InitStores /\ legacy = NoLegacy
  /\ writer = "dead" /\ hwriter = "dead" /\ swriter = "dead"
  /\ req \in [filename : {None, Some(<<"n", ".", "dat">>)}, segment : Segments,
               contentType : ContentTypes]
  /\ items = OneSession /\ retries = 0 /\ configuredAll = 0

NameNext == DetermineName

NameSpec == NameInit /\ [][NameNext]_vars

\* ------------------------------------------------------------ MigrateSpec
\* the records of a list as history jobs, each under the record's own id
JobsOf(recs) ==
  [i \in 1..Len(recs) |->
     HistoryJob(recs[i].id, recs[i].session_id, recs[i].url, recs[i].status, recs[i].size)]

\* fs::write(&json_path, "[]"), its result discarded: the file is replaced,
\* or stays as it was when the write fails
AfterTruncate(file) == {Truncated, file}

\* for rec in hist.items { enqueue_history_record(..) }
RECURSIVE SendAll(_, _, _)
SendAll(w, q, jobs) ==
  IF jobs = << >> THEN q ELSE SendAll(w, Send(w, q, Head(jobs)), Tail(jobs))

RECURSIVE SubmitAll(_, _)
SubmitAll(sub, jobs) ==
  IF jobs = << >> THEN sub
  ELSE SubmitAll(MapInsert(sub, Head(jobs).id, Head(jobs)), Tail(jobs))

\* migrate_json_history_to_db
MigrateJsonHistoryToDb ==
  /\ Len(hqueue) <= MaxQueue
  /\ IF legacy.form = "absent"
       THEN /\ migrated' = "ok"
            /\ UNCHANGED <<legacy, replayed, historyVars>>
       ELSE IF legacy.form # "object"
       THEN /\ migrated' = "err"
            /\ UNCHANGED <<legacy, replayed, historyVars>>
       ELSE /\ hqueue' = SendAll(hwriter, hqueue, JobsOf(legacy.items))
            /\ hwriter' = IF legacy.items = << >> THEN hwriter ELSE Started(hwriter)
            /\ lastSub' = IF hwriter = "dead" THEN lastSub
                           ELSE SubmitAll(lastSub, JobsOf(legacy.items))
            /\ replayed' = replayed \cup {legacy.items[i] : i \in 1..Len(legacy.items)}
            /\ legacy' \in AfterTruncate(legacy)
            /\ migrated' = "ok"
            /\ UNCHANGED <<hconn, hstore, nextId, hdropped>>
  /\ UNCHANGED <<summaries, nameVars, progressVars, scrapeVars, disk, readVars>>
  /\ UNCHANGED <<items, urls, backoffMs, chunks, regVars, sessVars, retries, execVars, events>>

MigrateNext ==
  \/ MigrateJsonHistoryToDb
  \/ HistoryApply
  \/ HistoryRejects
  \/ HistoryPanics

MigrateSpec == SummaryInit /\ [][MigrateNext]_vars

\* --------------------------------------------------------------- ReadSpec
\* the three stores, their writer threads and the commands that read them
ScrapeKeys == {"k1", "k2"}

\* enqueue_progress from some executor of session s1
CallEnqueueProgress(url, filename, status) ==
  /\ Len(queue) < MaxQueue
  /\ EnqueueProgress(WriteJob("s1", url, filename, status))
  /\ UNCHANGED <<owners, historyVars, scrapeVars, disk, readVars, commandVars>>
  /\ UNCHANGED <<items, urls, backoffMs, chunks, regVars, sessVars, retries, execVars, events>>

\* enqueue_scrape_item from a scraper run
CallEnqueueScrape(key, url, title) ==
  /\ Len(squeue) < MaxQueue
  /\ EnqueueScrapeItem(ScrapeJob(key, url, title))
  /\ UNCHANGED <<progressVars, historyVars, disk, readVars, commandVars>>
  /\ UNCHANGED <<items, urls, backoffMs, chunks, regVars, sessVars, retries, execVars, events>>

\* a read command: Ok with no rows when the file does not exist, else the
\* store is opened, its table created if absent, and the rows selected
ReadStore(f, rows) ==
  IF disk[f] = "absent"
    THEN /\ readRet' = [readRet EXCEPT ![f] = Ok({})]
         /\ readBack' = {}
         /\ UNCHANGED disk
    ELSE /\ disk' = [disk EXCEPT ![f] = OpenStore(@)]
         /\ readRet' = [readRet EXCEPT ![f] = Select(disk'[f], rows)]
         /\ readBack' = readRet'[f].rows

\* read_download_session(session_id, destination)
ReadDownloadSession(sid) ==
  /\ ReadStore(sid, ReadAll(store[sid]))
  /\ UNCHANGED <<progressVars, historyVars, scrapeVars, commandVars>>
  /\ UNCHANGED <<items, urls, backoffMs, chunks, regVars, sessVars, retries, execVars, events>>

\* get_persistent_history
GetPersistentHistory ==
  /\ ReadStore(HistoryDb, ReadHistory(hstore))
  /\ UNCHANGED <<progressVars, historyVars, scrapeVars, commandVars>>
  /\ UNCHANGED <<items, urls, backoffMs, chunks, regVars, sessVars, retries, execVars, events>>

\* read_scrape_session(session_key)
ReadScrapeSession(key) ==
  /\ ReadStore(ScrapeDb, ReadScrapeItems(sstore, key))
  /\ UNCHANGED <<progressVars, historyVars, scrapeVars, commandVars>>
  /\ UNCHANGED <<items, urls, backoffMs, chunks, regVars, sessVars, retries, execVars, events>>

ReadNext ==
  \/ CallEnqueueProgress("a", "f1", "completed")
  \/ CallEnqueueHistory(1, "a", "completed")
  \/ CallEnqueueScrape("k1", "a", "t1")
  \/ WriterApply \/ WriterRejects \/ WriterPanics
  \/ HistoryApply \/ HistoryRejects \/ HistoryPanics
  \/ ScrapeApply \/ ScrapeRejects \/ ScrapePanics
  \/ ReadDownloadSession("s1")
  \/ GetPersistentHistory
  \/ \E key \in ScrapeKeys : ReadScrapeSession(key)

ReadSpec == StoreInit /\ [][ReadNext]_vars


\* ================================================================ claims

\* C1: a Downloader built with configured concurrency N never has more than
\* max(1, N) download_with_progress invocations holding a permit, however
\* many executors were spawned on it.
C1_PermitBound ==
  \A s \in DOMAIN items : Cardinality(HoldingOf(s)) <= Max(1, configuredAll)

\* C1 witness: the pool is exhausted and a spawned executor waits for a permit
C1_Witness ==
  /\ Cardinality(HoldingOf("s1")) = Max(1, configuredAll)
  /\ \E e \in Executors : pc[e] = "acquire"

C3_PermitsConserved ==
  \A s \in DOMAIN items :
    sess[s] # "new" =>
      /\ permits[s] + Cardinality(HoldingOf(s)) = Max(1, configuredAll)
      /\ permits[s] >= 0
      /\ (\A e \in ExecutorsOf(s) : pc[e] \in {"idle", "done"})
           => permits[s] = Max(1, configuredAll)

\* C3 witness: configured concurrency 0, both executors have run and returned,
\* one Completed and one Failed
C3_Witness ==
  /\ configuredAll = 0
  /\ pc["a"] = "done" /\ pc["b"] = "done"
  /\ result["a"].kind = "Completed"
  /\ result["b"].kind = "Failed"
  /\ permits["s1"] = 1


\* C4: cancel_session(id) on a registered id removes the entry, fires the token
\* that was registered and returns true; until the id is registered again,
\* has_session_token(id) is false and every further cancel_session(id)
\* returns false.
C4_CancelRegistered ==
  /\ [](\A id \in sinceCancel : ~HasSessionToken(id))
  /\ [][(ret' # ret /\ ret'.op = "cancel") =>
          /\ HasSessionToken(ret'.id) =>
               /\ ret'.result = TRUE
               /\ ret'.id \notin DOMAIN tokens'
               /\ tokens[ret'.id] \in cancelled'
          /\ ret'.id \in sinceCancel => ret'.result = FALSE]_vars

\* C4 witness: a second cancel_session on a cancelled id has returned false
C4_Witness ==
  /\ ret.op = "cancel" /\ ret.result = FALSE
  /\ ret.id \in sinceCancel
  /\ cancelled # {}

\* C5 as stated: cancel_download_session on an id with no registered token
\* reports false, fires no token, changes neither registry, touches no
\* executor and no file, and emits no download_session_cancelled.
C5_CancelUnregisteredNoOp ==
  [][\A id \in Ids :
       (CancelDownloadSession(id) /\ ~HasSessionToken(id)) =>
         /\ ~CancelSessionResult(id)
         /\ UNCHANGED <<tokens, cancelled, pauseFlags, permits, execVars>>
         /\ <<"download_session_cancelled", id>> \in events' =>
              <<"download_session_cancelled", id>> \in events]_vars

\* C6: is_session_paused(id) is the value of the last set_session_paused(id, b)
\* not followed by remove_session_pause_flag(id), false when there is none;
\* lastSet[id] changes only in calls on id.
C6_PauseRegistry ==
  /\ \A id \in Ids : IsSessionPaused(id) = (lastSet[id] = "true")
  /\ \A id \in Ids : id \in DOMAIN pauseFlags <=> lastSet[id] # "unset"
  /\ ret.op = "is_paused" => ret.result = (lastSet[ret.id] = "true")

\* C6 witness: is_session_paused answered true for an id set, cleared and set
\* again while the other id's flag is present and false
C6_Witness ==
  /\ ret.op = "is_paused" /\ ret.result = TRUE
  /\ \E other \in Ids \ {ret.id} : other \in DOMAIN pauseFlags /\ ~pauseFlags[other]

\* C7 as stated: when an executor returns Canceled, no file written by any of
\* its attempts is left at the item's destination path.
C7_CanceledLeavesNoFile ==
  \A e \in Executors : result[e].kind = "Canceled" => fs[PathOf(e)] = NoFile

\* C8: a transfer that observes its session's pause flag set reads no chunk:
\* from the check it goes to sleep, and while it sleeps its downloaded count
\* and its file stay as they are; the file is deleted only on cancellation.
C8_PausedHaltsGrowth ==
  [][\A e \in Executors :
       /\ (pc[e] = "stream" /\ IsSessionPaused(SessionOf(e)) /\ ~IsCancelled(e)) =>
            /\ pc'[e] \in {"stream", "sleep"}
            /\ downloaded'[e] = downloaded[e]
            /\ fs'[PathOf(e)] = fs[PathOf(e)]
       /\ pc[e] = "sleep" =>
            /\ pc'[e] \in {"sleep", "stream"}
            /\ downloaded'[e] = downloaded[e]
            /\ fs'[PathOf(e)] = fs[PathOf(e)]
       /\ (pc[e] \in {"stream", "sleep", "read"} /\ fs'[PathOf(e)] < fs[PathOf(e)]) =>
            IsCancelled(e)]_vars

\* C8 witness: a paused transfer asleep with a byte already on disk
C8_Witness ==
  \E e \in Executors :
    /\ pc[e] = "sleep"
    /\ IsSessionPaused(SessionOf(e))
    /\ downloaded[e] > 0
    /\ fs[PathOf(e)] = downloaded[e]

\* C9: an attempt whose response declared content-length L completes only with
\* exactly L bytes written; a stream that ends with another count fails the
\* attempt with the incomplete error carrying L and the count received, and
\* when that was the last attempt allowed the executor returns Failed with it.
C9_SizeVerified ==
  [][\A e \in Executors :
       /\ (result'[e].kind = "Completed" /\ result[e].kind # "Completed"
             /\ total[e] # NoLen) =>
            /\ downloaded[e] = total[e]
            /\ result'[e].size = total[e]
            /\ fs'[PathOf(e)] = total[e]
       /\ (EndOfStream(e) /\ total[e] # NoLen /\ downloaded[e] # total[e]) =>
            /\ lastErr'[e] = Incomplete(total[e], downloaded[e])
            /\ result'[e].kind # "Completed"
            /\ attempt[e] + 1 > retries => result'[e] = Failed(lastErr'[e])
       /\ (lastErr'[e].kind = "incomplete" /\ lastErr'[e] # lastErr[e]) =>
            /\ total[e] # NoLen
            /\ lastErr'[e].expected = total[e]
            /\ lastErr'[e].got = downloaded[e]
            /\ lastErr'[e].expected # lastErr'[e].got]_vars

\* C9 witness: declared 1 byte, none received, no retry left: Failed(incomplete)
C9_Witness ==
  \E e \in Executors : result[e] = Failed(Incomplete(1, 0))

\* C10: an executor makes at most retries + 1 attempts; it returns Completed
\* from its first successful attempt with that attempt's size, returns Failed
\* only after retries + 1 failed attempts, and without cancellation returns
\* nothing else.
C10_RetryBudget ==
  \A e \in Executors :
    /\ tries[e] <= retries + 1
    /\ result[e].kind = "Failed" =>
         tries[e] = retries + 1 /\ attempt[e] = retries + 1
    /\ result[e].kind = "Completed" =>
         /\ tries[e] = attempt[e] + 1
         /\ result[e].size = fs[PathOf(e)]
    /\ (pc[e] = "done" /\ ~IsCancelled(e)) =>
         result[e].kind \in {"Completed", "Failed"}

\* C10 witness: with one retry allowed, one failed attempt and then a
\* successful one of 1 byte: Completed with size 1
C10_Witness ==
  \E e \in Executors :
    /\ retries = 1
    /\ result[e] = Completed(1)
    /\ tries[e] = 2
    /\ attempt[e] = 1

\* C11: cancellation is rechecked before each attempt. Once the session's token
\* is cancelled an executor starts no further attempt, and one that is waiting
\* for a permit, at the top of the retry loop or in a backoff sleep can only
\* stay outside an attempt and then return Canceled, whatever retries it is
\* still owed.
C11_NoAttemptAfterCancel ==
  [][\A e \in Executors :
       (pc[e] # "idle" /\ TokenOf(SessionOf(e)) \in cancelled) =>
         /\ tries'[e] = tries[e]
         /\ pc[e] \in {"acquire", "loop", "backoff"} =>
              /\ pc'[e] \in {"acquire", "loop", "backoff", "done"}
              /\ pc'[e] = "done" => result'[e] = Canceled]_vars

\* C11 witness: one retry allowed; an executor cancelled after its first failed
\* attempt returned Canceled with the retry unused, and the executor that was
\* waiting for the permit returned Canceled without any attempt
C11_Witness ==
  /\ retries = 1
  /\ result["a"] = Canceled /\ tries["a"] = 1 /\ attempt["a"] = 1
  /\ result["b"] = Canceled /\ tries["b"] = 0

\* C12 as stated: a filesystem failure ends the executor with Failed after that
\* one attempt; only transport failures and size mismatches wait for a retry.
C12_FilesystemTerminal ==
  \A e \in Executors :
    /\ lastErr[e].kind = "io" => (pc[e] = "done" /\ result[e] = Failed(Err("io")))
    /\ pc[e] = "backoff" => lastErr[e].kind \in {"transport", "incomplete"}

C14_TerminalRegistriesEmpty ==
  \A s \in Sessions :
    <<"download_session_finished", s>> \in events =>
      /\ ~HasSessionToken(s)
      /\ s \notin DOMAIN pauseFlags

\* C15: the loop over the items skips a malformed value with a parse-error
\* notification and spawns nothing for it: the executors spawned so far are
\* exactly the well-formed values the loop has passed, the notification is
\* there exactly when a malformed value was passed, and the session goes on,
\* so that by the time it leaves the loop every well-formed item was spawned
\* and by the time it cleans up every one of them has run to its result.
C15_MalformedSkipped ==
  \A s \in DOMAIN items :
    LET passed == {ItemsOf(s)[i] : i \in 1..spawned[s]} IN
      /\ spawned[s] <= Len(ItemsOf(s))
      /\ {e \in Executors : pc[e] # "idle"} = passed \ {Malformed}
      /\ <<"icnx:download_item_parse_error", s>> \in events <=> Malformed \in passed
      /\ sess[s] \notin {"new", "spawn"} =>
           /\ spawned[s] = Len(ItemsOf(s))
           /\ \A e \in ExecutorsOf(s) : pc[e] = "done" /\ result[e] # NoResult

\* C15 witness: the list <<a, malformed, b>> went through: the parse error was
\* notified, both well-formed items ran and completed, the session ended
C15_Witness ==
  /\ items = MixedSession
  /\ sess["s1"] = "end"
  /\ <<"icnx:download_item_parse_error", "s1">> \in events
  /\ result["a"].kind = "Completed"
  /\ result["b"].kind = "Completed"

\* C16: the step in which a transfer returns Failed changes nothing of its
\* siblings: their position, attempt counters, results and files are as
\* before, the session's token is neither fired nor removed, the pause flag is
\* untouched, and the one thing handed on is the permit the failed transfer
\* held. Every sibling therefore goes on from the state it would be in
\* without the failure.
C16_FailureIsolated ==
  [][\A e \in Executors :
       (result'[e].kind = "Failed" /\ result[e].kind # "Failed") =>
         /\ cancelled' = cancelled
         /\ tokens' = tokens
         /\ pauseFlags' = pauseFlags
         /\ permits'[SessionOf(e)] = permits[SessionOf(e)] + 1
         /\ \A sib \in Executors \ {e} :
              /\ pc'[sib] = pc[sib]
              /\ result'[sib] = result[sib]
              /\ attempt'[sib] = attempt[sib]
              /\ tries'[sib] = tries[sib]
              /\ total'[sib] = total[sib]
              /\ downloaded'[sib] = downloaded[sib]
              /\ lastErr'[sib] = lastErr[sib]
              /\ fs'[PathOf(sib)] = fs[PathOf(sib)]]_vars

\* C16 witness: one transfer exhausted its retries and Failed, no token was
\* cancelled, and its sibling, which started after the failure, Completed
C16_Witness ==
  /\ result["a"].kind = "Failed"
  /\ result["b"] = Completed(1)
  /\ fs[PathOf("b")] = 1
  /\ cancelled = {}
  /\ configuredAll = 1

\* C17: a failing store never reaches a transfer. The writer thread's steps,
\* whether the job is written, rejected, or the thread dies on a store it
\* cannot open, change nothing of the executors, their files, the permits or
\* the registries; and whatever the state of the writer and its channel, an
\* executor that is running can take each step its position allows, so an
\* enqueue neither blocks it nor ends it.
C17_PersistenceIsolated ==
  /\ [][(WriterApply \/ WriterRejects \/ WriterPanics) =>
          UNCHANGED <<execVars, sessVars, regVars, events>>]_vars
  /\ [](\A e \in Executors :
          /\ pc[e] = "loop" => ENABLED LoopTop(e)
          /\ pc[e] = "send" => ENABLED ResponseOk(e) /\ ENABLED ResponseError(e)
          /\ pc[e] = "stream" => ENABLED StreamCheck(e)
          /\ pc[e] = "read" => ENABLED EndOfStream(e) /\ ENABLED ChunkError(e)
          /\ (pc[e] = "read" /\ downloaded[e] < chunks) => ENABLED ChunkWritten(e)
          /\ pc[e] = "backoff" => ENABLED Backoff(e))

\* C17 witness: the writer thread died on the store, one write of b was
\* rejected before, and both transfers completed with their byte on disk
C17_Witness ==
  /\ writer = "dead"
  /\ "a" \in dropped /\ "b" \in dropped
  /\ result["a"] = Completed(1) /\ fs[PathOf("a")] = 1
  /\ result["b"] = Completed(1) /\ fs[PathOf("b")] = 1
  /\ \A r \in store["s1"] : r[3] # "completed"

\* C18: after any sequence of upsert_progress calls the progress table holds
\* one row per url written and none for the others, and read_all gives back
\* for each url the url, filename and status of the last write for it.
C18_OneRowPerUrl ==
  /\ \A url \in StoreUrls :
       /\ Cardinality({r \in store["s1"] : r[1] = url}) <= 1
       /\ lastEnq[url] # NoRow => lastEnq[url] \in ReadAll(store["s1"])
       /\ lastEnq[url] = NoRow => \A r \in ReadAll(store["s1"]) : r.url # url
  /\ Cardinality(ReadAll(store["s1"])) = Cardinality(store["s1"])
  /\ \A r1, r2 \in readBack : r1.url = r2.url => r1 = r2

\* C18 witness: both urls are written, and a row that an earlier read_all
\* returned has since been replaced by a write of the same url
C18_Witness ==
  /\ Cardinality(store["s1"]) = 2
  /\ \E old \in readBack, new \in ReadAll(store["s1"]) :
       /\ old.url = new.url
       /\ old.status = "downloading" /\ new.status = "completed"
       /\ old.filename # new.filename

\* C19: the history table holds at most one row per id; once the writer has
\* drained the channel the row of an id is the last record submitted under it
\* (unless the store rejected it), and writing a record leaves the rows of the
\* other ids as they were.
C19_HistoryReplace ==
  /\ [](\A id \in HistoryIds :
          /\ Cardinality({r \in hstore : r[1] = id}) <= 1
          /\ (id \in DOMAIN lastSub /\ id \notin IdsIn(hqueue) /\ id \notin hdropped)
               => lastSub[id] \in ReadHistory(hstore))
  /\ [][HistoryApply =>
          \A r \in hstore : r[1] # Dequeue(hqueue).job.id => r \in hstore']_vars

\* C19 witness: the channel is drained, both ids have their row, and the row
\* of id 1 that an earlier read_history returned as completed is now failed
C19_Witness ==
  /\ hqueue = << >>
  /\ Cardinality(hstore) = 2
  /\ \E old \in readBack, new \in ReadHistory(hstore) :
       /\ old.id = 1 /\ new.id = 1
       /\ old.status = "completed" /\ new.status = "failed"

\* C20: the writer applies the progress jobs of a url in the order they were
\* enqueued: while the writer lives, the last status an executor that has
\* returned enqueued is its terminal one, and once no job of the url is left
\* in the channel (and none was lost) the stored row of the url is the last
\* one enqueued.
C20_ProgressInOrder ==
  \A e \in ExecutorsOf("s1") :
    /\ (writer # "dead" /\ pc[e] = "done") =>
         lastEnq[UrlOf(e)].status = TerminalStatus(result[e].kind)
    /\ (lastEnq[UrlOf(e)] # NoRow /\ UrlOf(e) \notin UrlsIn(queue)
          /\ UrlOf(e) \notin dropped) =>
         lastEnq[UrlOf(e)] \in ReadAll(store[DbOf(e)])
    /\ Cardinality({r \in store[DbOf(e)] : r[1] = UrlOf(e)}) <= 1

\* C20 witness: a transfer completed at its second attempt, the channel is
\* drained with nothing lost, and its stored status is completed
C20_Witness ==
  /\ result["a"] = Completed(1) /\ tries["a"] = 2
  /\ queue = << >> /\ dropped = {} /\ writer = "alive"
  /\ <<"a", FilenameOf("a"), "completed">> \in store["s1"]

\* C21: a read command on a store that was never written returns Ok with an
\* empty row list, never an error, for the progress store of a session, the
\* history store and the scrape store alike: whether the file does not exist
\* or exists without its table.
C21_EmptyStoreReadsEmpty ==
  /\ store["s1"] = {} => readRet["s1"] \in {NoRead, Ok({})}
  /\ hstore = {} => readRet[HistoryDb] \in {NoRead, Ok({})}
  /\ sstore = {} => readRet[ScrapeDb] \in {NoRead, Ok({})}

\* C21 witness: each store's file was created by a write that was then
\* rejected, no row was ever written, and all three reads returned Ok, empty
C21_Witness ==
  /\ store["s1"] = {} /\ hstore = {} /\ sstore = {}
  /\ "s1" \in conns /\ hconn /\ sconn
  /\ \A f \in {"s1", HistoryDb, ScrapeDb} : readRet[f] = Ok({})

\* C22: the summary of a session reports Mixed exactly when its records hold
\* at least one Failed and at least one Completed; Failed when they hold a
\* failure and no success; Completed when they hold successes and nothing
\* else; and Incomplete in every other case.
C22_SummaryStatus ==
  [][summaries' # summaries =>
       \A sid \in DOMAIN summaries' :
         LET st == StatusesOf(LoadHistory(legacy), sid)
             failure == "Failed" \in st
             success == "Completed" \in st
         IN /\ summaries'[sid] = "Mixed" <=> (failure /\ success)
            /\ (failure /\ ~success) => summaries'[sid] = "Failed"
            /\ st = {"Completed"} => summaries'[sid] = "Completed"
            /\ (~failure /\ st # {"Completed"}) => summaries'[sid] = "Incomplete"]_vars

\* C22 witness: one session with a failure and a success summarised as Mixed,
\* the other, with a Deleted record only, as Incomplete
C22_Witness ==
  /\ DOMAIN summaries = Sessions
  /\ summaries["s1"] = "Mixed"
  /\ StatusesOf(LoadHistory(legacy), "s1") = {"Failed", "Completed"}
  /\ summaries["s2"] = "Incomplete"
  /\ StatusesOf(LoadHistory(legacy), "s2") = {"Deleted"}

\* C23 as stated: once migrate_json_history_to_db has returned Ok and the
\* history channel is empty, every legacy record the migration read is in the
\* history table under its own id, with its session and status, and the table
\* holds no two rows of one id however often the migration ran.
C23_MigrationKeepsRecords ==
  /\ (migrated = "ok" /\ hqueue = << >>) =>
       \A rec \in replayed :
         \E r \in hstore :
           r[1] = rec.id /\ r[2] = rec.session_id /\ r[4] = rec.status
  /\ \A r1, r2 \in hstore : r1[1] = r2[1] => r1 = r2

\* C24 as stated: the executor's filename is the item's explicit filename;
\* else the url's last segment without its query when that has a non-trailing
\* dot; else that segment plus the extension the content-type maps to
\* (jpeg/jpg, png, gif, webp, mp4, webm, pdf, zip, json, text, else binary),
\* as determine_filename computes it.
C24_FilenameResolution ==
  resolved.done =>
    resolved.name = IF req.filename.some THEN req.filename.name
                    ELSE DetermineFilename(req.segment, req.contentType)

\* C25: cancellation has a slack of one chunk. After its session's token is
\* cancelled a transfer writes at most one further chunk, the one of a read
\* already issued: it issues no new read, and at the check that follows the
\* chunk it sees the signal, deletes its file and returns Canceled.
C25_OneChunkSlack ==
  /\ [](\A e \in Executors : slack[e] <= 1)
  /\ [][\A e \in Executors :
          /\ (pc[e] = "stream" /\ IsCancelled(e)) =>
               \/ pc'[e] = "stream"
               \/ pc'[e] = "done" /\ result'[e] = Canceled /\ fs'[PathOf(e)] = NoFile
          /\ (pc[e] # "idle" /\ pc'[e] = "read" /\ IsCancelled(e)) => pc[e] = "read"]_vars

\* C25 witness: both transfers were waiting for a chunk when the signal fired;
\* a wrote its second chunk and then returned Canceled, b has just written its
\* second chunk and is at the check
C25_Witness ==
  /\ slack["a"] = 1 /\ result["a"] = Canceled
  /\ slack["b"] = 1 /\ pc["b"] = "stream" /\ downloaded["b"] = 2

\* C26: session completion is ordered. download_session_finished is emitted
\* only when every spawned executor has returned, the token is unregistered
\* and remove_session_pause_flag has run (the task comes to the emission from
\* the removal, which leaves no flag); download_session_cleanup is emitted
\* after it; and once it is emitted no executor of the session moves and
\* nothing is enqueued for the progress or the history writer.
C26_CompletionOrdered ==
  [][\A s \in DOMAIN items :
       /\ (<<"download_session_finished", s>> \in events' \ events) =>
            /\ AllReturned(s)
            /\ ~HasSessionToken(s)
            /\ sess[s] = "finish"
            /\ <<"download_session_cleanup", s>> \notin events'
       /\ (sess'[s] = "finish" /\ sess[s] # "finish") =>
            /\ s \notin DOMAIN pauseFlags'
            /\ ~HasSessionToken(s)
            /\ AllReturned(s)
       /\ (<<"download_session_cleanup", s>> \in events' \ events) =>
            <<"download_session_finished", s>> \in events
       /\ <<"download_session_finished", s>> \in events =>
            /\ \A e \in ExecutorsOf(s) : pc[e] = "done" /\ pc'[e] = "done"
            /\ Len(hqueue') <= Len(hqueue) /\ lastSub' = lastSub /\ nextId' = nextId
            /\ Len(queue') <= Len(queue) /\ lastEnq' = lastEnq]_vars

\* C26 witness: the session is over, finished and cleanup emitted, one item
\* completed and one cancelled by a command, no pause flag left, and the
\* history writer has written both records
C26_Witness ==
  /\ sess["s1"] = "end"
  /\ <<"download_session_finished", "s1">> \in events
  /\ <<"download_session_cleanup", "s1">> \in events
  /\ <<"download_session_cancelled", "s1">> \in events
  /\ "s1" \notin DOMAIN pauseFlags
  /\ result["a"].kind = "Completed" /\ result["b"].kind = "Canceled"
  /\ hqueue = << >> /\ Cardinality(hstore) = 2

\* C27: the token is registered before the session id is known and before any
\* executor is spawned, and stays registered until the first cancel_session
\* for the id, which therefore finds it and returns true, whether it is a
\* command's or the one the background task makes after the last executor
\* returned. From then on an executor that has not returned starts no further
\* request or read, and it returns Canceled unless the request or the read it
\* was already waiting for ends first and gives it its result.
C27_CancelFindsToken ==
  /\ [](\A s \in DOMAIN items :
          /\ (sess[s] # "new" /\ s \notin sinceCancel) => HasSessionToken(s)
          /\ \A e \in ExecutorsOf(s) :
               pc[e] # "idle" => (HasSessionToken(s) \/ s \in sinceCancel))
  /\ [][\A s \in DOMAIN items :
          ((CancelDownloadSession(s) \/ JoinAll(s)) /\ s \notin sinceCancel) =>
            /\ CancelSessionResult(s)
            /\ TokenOf(s) \in cancelled'
            /\ <<"download_session_finished", s>> \notin events]_vars
  /\ [][\A e \in Executors :
          (pc[e] \notin {"idle", "done"} /\ IsCancelled(e)) =>
            /\ tries'[e] = tries[e]
            /\ pc[e] \notin {"send", "read"} => pc'[e] \notin {"send", "read"}
            /\ (pc'[e] = "done" /\ pc[e] \notin {"send", "read"}) => result'[e] = Canceled]_vars

\* C27 witness: a cancel command found the token while both executors were
\* running; a returned Canceled, and b, whose read was pending, Completed
C27_Witness ==
  /\ <<"download_session_cancelled", "s1">> \in events
  /\ "s1" \in sinceCancel /\ ~HasSessionToken("s1")
  /\ sess["s1"] = "spawn"
  /\ result["a"] = Canceled
  /\ result["b"] = Completed(1)

\* C28 as stated: a transfer is always stoppable by cancellation. An executor
\* that waits for a response or for a chunk when its session's token is
\* cancelled eventually returns, even when the server stays silent, and the
\* session, once cancelled, eventually emits download_session_finished.
C28_StalledStoppable ==
  /\ \A e \in {"a", "b"} :
       (pc[e] \in {"send", "read"} /\ IsCancelled(e)) ~> (pc[e] = "done")
  /\ (<<"download_session_cancelled", "s1">> \in events /\ "s1" \in sinceCancel)
       ~> (<<"download_session_finished", "s1">> \in events)

\* C29 as stated: within one session at most one executor writes progress
\* records for a given url. Whatever the item list, also one that repeats a
\* url, no two executors of a session have progress jobs accepted under the
\* same url key.
C29_OneWriterPerUrl ==
  \A s \in DOMAIN items : \A u \in Executors :
    Cardinality(owners[u] \cap ExecutorsOf(s)) <= 1

\* the executor holds the file it created: from File::create to its return
HoldsFile(e) == pc[e] \in {"stream", "sleep", "read"}

\* C30 as stated: files are exclusively owned by the transfer that created
\* them. No two running executors ever have the same destination path open
\* for writing, and the cancellation cleanup of an executor never deletes a
\* file that another executor holds open or has completed.
C30_ExclusiveFiles ==
  /\ [](\A e1, e2 \in Executors :
          (e1 # e2 /\ HoldsFile(e1) /\ HoldsFile(e2)) => PathOf(e1) # PathOf(e2))
  /\ [][\A e \in Executors :
          (pc[e] = "stream" /\ IsCancelled(e) /\ pc'[e] = "done") =>
            \A o \in Executors \ {e} :
              PathOf(o) = PathOf(e) =>
                ~(HoldsFile(o) \/ result[o].kind = "Completed")]_vars

\* C34: register overwrites. A register_session_token(id, tok) leaves one
\* entry for id, holding tok, and fires nothing; a cancel_session(id) that
\* finds an entry returns true, removes it and fires the token registered
\* last and no other (an overwritten token is not fired);
\* unregister_session_token(id) removes the entry and fires nothing.
C34_RegisterOverwrites ==
  [][/\ \A id \in Sessions, tok \in Tokens :
          CallRegister(id, tok) =>
            /\ DOMAIN tokens' = DOMAIN tokens \cup {id}
            /\ tokens'[id] = tok
            /\ \A k \in DOMAIN tokens \ {id} : tokens'[k] = tokens[k]
            /\ cancelled' = cancelled
     /\ \A id \in Sessions :
          CallCancel(id) =>
            IF id \in DOMAIN tokens
              THEN /\ ret'.result = TRUE
                   /\ cancelled' = cancelled \cup {tokens[id]}
                   /\ DOMAIN tokens' = DOMAIN tokens \ {id}
              ELSE /\ ret'.result = FALSE
                   /\ cancelled' = cancelled /\ tokens' = tokens
     /\ \A id \in Sessions :
          CallUnregister(id) =>
            /\ DOMAIN tokens' = DOMAIN tokens \ {id}
            /\ \A k \in DOMAIN tokens' : tokens'[k] = tokens[k]
            /\ cancelled' = cancelled]_vars

\* t1 was registered for s1 and overwritten by t2; cancel_session("s1") has
\* returned true and only t2 is fired
C34_Witness ==
  /\ replaced = {"t1"}
  /\ ret.op = "cancel" /\ ret.id = "s1" /\ ret.result = TRUE
  /\ cancelled = {"t2"} /\ tokens = << >>

\* C35 as stated: the delay before retry number k, after the k-th failed
\* attempt, is k times the configured base delay, an executor sleeps at most
\* retries times, and one that has failed for good has slept exactly retries
\* times (no delay after the final failed attempt); no attempt ends the task
\* without a status.
C35_BackoffLinear ==
  \A e \in Executors :
    /\ Len(slept[e]) <= retries
    /\ \A k \in 1..Len(slept[e]) : slept[e][k] = k * backoffMs
    /\ result[e].kind = "Failed" => Len(slept[e]) = retries
    /\ result[e].kind # "Panicked"

\* the quotient is the number n / d
IsRatio(q, n, d) == q.den # 0 /\ q.num * d = n * q.den
\* the payload's ratio is downloaded / total, or 0 without a positive total
RatioOfTotal(p) ==
  IF p.total # NoLen /\ p.total > 0 THEN IsRatio(p.progress, p.downloaded, p.total)
  ELSE IsRatio(p.progress, 0, 1)

\* C36 as stated: every progress payload an executor produces, in every
\* status, carries the ratio downloaded/total when the total is known and
\* greater than 0, and 0 when the total is unknown or 0. Checked at every
\* step that calls emit_progress, on the arguments of the call.
C36_RatioOfTotal ==
  [][\A e \in Executors :
       /\ (LoopTop(e) /\ IsCancelled(e)) => RatioOfTotal(ProgressArgs(e, "cancelled"))
       /\ (StreamCheck(e) /\ IsCancelled(e)) => RatioOfTotal(ProgressArgs(e, "cancelled"))
       /\ (StreamCheck(e) /\ ~IsCancelled(e) /\ IsSessionPaused(SessionOf(e))) =>
            RatioOfTotal(ProgressArgs(e, "paused"))
       /\ ChunkWritten(e) => RatioOfTotal(ProgressArgs(e, "downloading"))
       /\ (pc[e] # "done" /\ result'[e].kind = "Failed") =>
            RatioOfTotal(ProgressArgs(e, "failed"))
       /\ (pc[e] = "read" /\ result'[e].kind = "Completed") =>
            RatioOfTotal(ProgressArgs(e, "completed"))]_vars

\* C37 as stated: download_item_resumed is emitted only for an item that
\* was paused before. A step that emits it (the chunk arm of the streaming
\* loop) is taken only in a session whose pause flag has been set, and
\* only when the flag is no longer set.
C37_ResumedAfterPause ==
  [][\A e \in Executors :
       (ChunkWritten(e) /\ <<"download_item_resumed", UrlOf(e)>> \in events') =>
         /\ lastSet[SessionOf(e)] # "unset"
         /\ ~IsSessionPaused(SessionOf(e))]_vars

\* the history records submitted for the item of an executor
RecordsOf(e) == {lastSub[id] : id \in {i \in DOMAIN lastSub : lastSub[i].url = UrlOf(e)}}

\* C38: an executor that runs with a session id enqueues exactly one history
\* record, when it returns: none before (a failed attempt that is retried
\* enqueues none), and once it has returned one record whose status is that
\* of its result and whose size is present only for completed; the progress
\* write of that status is the last one it enqueued for its url.
C38_OneHistoryRecord ==
  \A e \in ExecutorsOf("s1") :
    IF pc[e] = "done"
      THEN /\ Cardinality({id \in DOMAIN lastSub : lastSub[id].url = UrlOf(e)}) = 1
           /\ \A r \in RecordsOf(e) :
                /\ r.status = TerminalStatus(result[e].kind)
                /\ r.session_id = SessionOf(e)
                /\ r.size = IF result[e].kind = "Completed" THEN result[e].size ELSE NoLen
           /\ lastEnq[UrlOf(e)].status = TerminalStatus(result[e].kind)
      ELSE RecordsOf(e) = {}

\* C38 witness: a has failed for good at its second attempt, after a chunk and
\* a retry, b has completed; each has its one record
C38_Witness ==
  /\ result["a"].kind = "Failed" /\ tries["a"] = 2
  /\ <<"download_item_resumed", "a">> \in events
  /\ result["b"] = Completed(1)
  /\ \E r \in RecordsOf("a") : r.status = "failed" /\ r.size = NoLen
  /\ \E r \in RecordsOf("b") : r.status = "completed" /\ r.size = 1
  /\ Len(hqueue) = 2

C40_CancelAllStops ==
  [][\A s \in DOMAIN items : \A e \in ExecutorsOf(s) :
       DownloaderToken(s) \in cancelled =>
         /\ (pc[e] # "done" /\ pc'[e] = "done") => result'[e] = Canceled
         /\ pc[e] = "loop" => pc'[e] # "send"]_vars

\* C31 as stated: each writer has exactly one consumer thread for the life of
\* the process. Once the first enqueue has created a writer's worker that
\* worker is there, every job an enqueue call sends is put on its channel
\* behind the jobs already there, and the worker takes one job at a time,
\* from the front.
C31_OneConsumer ==
  /\ [](writer \in {"none", "alive"} /\ hwriter \in {"none", "alive"}
          /\ swriter \in {"none", "alive"})
  /\ [][/\ CallEnqueueProgress("a", "f1", "completed") =>
             /\ writer' = "alive"
             /\ queue' = Append(queue, WriteJob("s1", "a", "f1", "completed"))
        /\ CallEnqueueHistory(1, "a", "completed") =>
             /\ hwriter' = "alive"
             /\ Len(hqueue') = Len(hqueue) + 1 /\ SubSeq(hqueue', 1, Len(hqueue)) = hqueue
        /\ CallEnqueueScrape("k1", "a", "t1") =>
             /\ swriter' = "alive"
             /\ squeue' = Append(squeue, ScrapeJob("k1", "a", "t1"))
        /\ (WriterApply \/ WriterRejects) => queue' = Tail(queue)
        /\ (HistoryApply \/ HistoryRejects) => hqueue' = Tail(hqueue)
        /\ (ScrapeApply \/ ScrapeRejects) => squeue' = Tail(squeue)]_vars

\* C32 as stated: a failing job does not stop a writer worker. Whenever a
\* worker takes a job, whether the job is written, rejected by the store or
\* meets a store that cannot be opened, the worker is still alive afterwards
\* and the jobs behind the one taken are still in its channel.
C32_WorkerSurvives ==
  [][/\ (writer = "alive" /\ queue' # queue /\ Len(queue') <= Len(queue)) =>
          writer' = "alive" /\ queue' = Tail(queue)
     /\ (hwriter = "alive" /\ hqueue' # hqueue /\ Len(hqueue') <= Len(hqueue)) =>
          hwriter' = "alive" /\ hqueue' = Tail(hqueue)
     /\ (swriter = "alive" /\ squeue' # squeue /\ Len(squeue') <= Len(squeue)) =>
          swriter' = "alive" /\ squeue' = Tail(squeue)]_vars

\* -------------------------------------------------------------- PurgeSpec
\* the history store, its writer thread and the purge command
\* created_at of a history row: the records are created in the order of
\* their ids
CreatedAt(r) == r[1]

\* DELETE FROM history, or DELETE FROM history WHERE created_at < ?1
PurgeRows(rows, olderThan) ==
  IF olderThan.some THEN {r \in rows : ~(CreatedAt(r) < olderThan.val)} ELSE {}

\* the older_than arguments of the purge command: none, or a timestamp
PurgeCuts == {[some |-> FALSE, val |-> 0], [some |-> TRUE, val |-> 2]}

\* purge_persistent_history(older_than): nothing when history.db does not
\* exist; else the command opens a connection of its own and deletes
\* through it. The result of the DELETE is discarded: it fails when the
\* table does not exist, and when the writer's connection holds the lock
PurgePersistentHistory(olderThan) ==
  /\ IF disk[HistoryDb] = "table"
       THEN \/ hstore' = PurgeRows(hstore, olderThan)
            \/ hwriter = "alive" /\ hqueue # << >> /\ UNCHANGED hstore
       ELSE UNCHANGED hstore
  /\ UNCHANGED <<hwriter, hqueue, hconn, nextId, lastSub, hdropped>>
  /\ UNCHANGED <<progressVars, scrapeVars, disk, readVars, commandVars>>
  /\ UNCHANGED <<items, urls, backoffMs, chunks, regVars, sessVars, retries, execVars, events>>

PurgeNext ==
  \/ \E id \in HistoryIds, st \in {"completed", "failed"} :
       CallEnqueueHistory(id, "a", st)
  \/ HistoryApply
  \/ HistoryRejects
  \/ HistoryPanics
  \/ \E olderThan \in PurgeCuts : PurgePersistentHistory(olderThan)
  \/ GetPersistentHistory

PurgeSpec == StoreInit /\ [][PurgeNext]_vars

\* C33 as stated: the rows of a store change only by its writer worker. While
\* the worker of the history store is alive and has jobs to write, a step
\* that changes the rows of the history table is the worker applying a job;
\* likewise for the progress and the scrape store.
C33_OnlyWorkerWrites ==
  [][/\ (hwriter = "alive" /\ hqueue # << >> /\ hstore' # hstore) => HistoryApply
     /\ (writer = "alive" /\ queue # << >> /\ store' # store) => WriterApply
     /\ (swriter = "alive" /\ squeue # << >> /\ sstore' # sstore) => ScrapeApply]_vars
====
